---- MODULE Spec2Model ----
(***************************************************************************)
(* Equipment-lending portal: the React single-page frontend (App routing,  *)
(* LoginForm, RequestsManagement, AdminDashboard, EquipmentManagement,     *)
(* BorrowEquipment, StudentDashboard) and the Express request routes.      *)
(*                                                                         *)
(* Every page component keeps its state in useState hooks, so a page that  *)
(* is not rendered holds no state: when the location leaves a page its     *)
(* variables return to the hook initialisers.  The hook initialisers are   *)
(* the mock fixtures of each page; the handlers never depend on what the   *)
(* fixtures contain, so the fixtures are drawn from bounded sets of        *)
(* well-formed records.                                                    *)
(***************************************************************************)
EXTENDS Integers, Sequences, FiniteSets, TLC

(* ---------------------------------------------------------------------- *)
(* Bounds                                                                  *)
(* ---------------------------------------------------------------------- *)
MaxRequests == 2

MaxEquipment == 2

MaxQuantity == 2

\* The calls of handleConfirmSubmit suspended at once, and the redirect timers
\* set at once
MaxPending == 2

(* ---------------------------------------------------------------------- *)
(* Values                                                                  *)
(* ---------------------------------------------------------------------- *)
Roles == {"student", "staff", "admin"}

Statuses == {"pending", "approved", "rejected", "returned"}

Null == "null"

\* App.js useState(null): the user nobody is logged in as.
NoUser == [id |-> Null, name |-> Null, email |-> Null, role |-> Null]

\* LoginForm.js mockUsers
mockUsers ==
  { [id |-> "1", name |-> "John Student", email |-> "student@example.com",
     password |-> "password123", role |-> "student"],
    [id |-> "2", name |-> "Jane Staff", email |-> "staff@example.com",
     password |-> "password123", role |-> "staff"],
    [id |-> "3", name |-> "Admin User", email |-> "admin@example.com",
     password |-> "password123", role |-> "admin"] }

\* The profile onLogin receives for an account.
Profile(account) ==
  [id |-> account.id, name |-> account.name, email |-> account.email,
   role |-> account.role]

Paths == {"/login", "/student-dashboard", "/admin-dashboard", "/borrow-history",
          "/equipment-management", "/borrow-equipment", "/requests", "/"}

\* new Date().toISOString().split('T')[0]
Today == "2025-11-04"

FixtureDate == "2025-11-01"

NoteTexts == {"", "note"}

VARIABLES
  user,             \* App: const [user, setUser] = useState(null)
  location,         \* the router's current location (after redirects)
  visited,          \* the paths of the session history entries
  requested,        \* the path the last step asked the router for, Null when the
                    \* last step was not a navigation
  loginForm,        \* LoginForm: formData
  loginError,       \* LoginForm: error
  loginLoading,     \* LoginForm: loading
  loginPending,     \* LoginForm.handleSubmit suspended at its await: the id of the
                    \* account its mockUsers.find will return for the captured formData
  loginPendingMounted, \* the LoginForm instance that suspended is still mounted
  requests,         \* RequestsManagement: requests
  actionModal,      \* RequestsManagement: actionModal
  actionNotes,      \* RequestsManagement: actionNotes
  requestsSearchTerm,   \* RequestsManagement: searchTerm
  requestsFilterStatus, \* RequestsManagement: filterStatus
  mockEquipmentData, \* EquipmentManagement fixture
  equipment,        \* EquipmentManagement: equipment
  showModal,        \* EquipmentManagement: showModal
  modalMode,        \* EquipmentManagement: modalMode
  formData,         \* EquipmentManagement: formData
  editingId,        \* EquipmentManagement: editingId
  deleteConfirmId,  \* EquipmentManagement: deleteConfirmId
  adminRequests,    \* AdminDashboard: requests
  adminActionModal, \* AdminDashboard: actionModal
  borrowRequests,   \* StudentDashboard: borrowRequests
  showBorrowModal,  \* StudentDashboard: showBorrowModal
  selectedEquipmentForBorrow, \* StudentDashboard: the id of the item, 0 for null
  borrowFormData,   \* BorrowEquipment: formData
  borrowErrors,     \* BorrowEquipment: errors
  showConfirmation, \* BorrowEquipment: showConfirmation
  isSubmitting,     \* BorrowEquipment: isSubmitting
  confirmPending,   \* the calls of BorrowEquipment.handleConfirmSubmit suspended at
                    \* their await: how many
  confirmPendingMounted, \* one of them is the call of the instance now mounted
  redirectPending,  \* the setTimeouts of handleConfirmSubmit that have not fired yet:
                    \* how many
  historySearchTerm,   \* BorrowHistory: searchTerm
  historyFilterStatus, \* BorrowHistory: filterStatus
  token,            \* localStorage[TOKEN_KEY], Null when the key is not set
  storedUser,       \* localStorage[USER_KEY] as getUser parses it, NoUser when not set
  apiLoginPending,  \* api.authLogin or api.authRegister suspended at its await: the
                    \* response on its way
  lastFetch,        \* the Authorization header of the last fetch() of api.js; seq tells
                    \* one call from the next
  serverCall,       \* the call the Express router is handling, with its place in the chain
  serverRequests,   \* the borrow requests the server stores
  lastAlert,        \* the alert() the last handler showed, "" when it showed none
  apiOutcome        \* what the api.js call that settled in the last step handed to its
                    \* caller (a value returned or an error thrown), NoOutcome when
                    \* the last step settled none

appVars == <<user, location, visited, requested>>

loginVars == <<loginForm, loginError, loginLoading, loginPending, loginPendingMounted>>

reqVars == <<requests, actionModal, actionNotes, requestsSearchTerm, requestsFilterStatus>>

adminVars == <<adminRequests, adminActionModal>>

equipVars == <<equipment, showModal, modalMode, formData, editingId, deleteConfirmId>>

historyVars == <<historySearchTerm, historyFilterStatus>>

studentVars == <<borrowRequests, showBorrowModal, selectedEquipmentForBorrow>>

borrowVars == <<borrowFormData, borrowErrors, showConfirmation, isSubmitting,
                confirmPendingMounted>>

\* The callbacks of BorrowEquipment that outlive the page.
timerVars == <<confirmPending, redirectPending>>

fixtureVars == <<mockEquipmentData>>

storageVars == <<token, storedUser>>

serverVars == <<serverCall, serverRequests>>

apiVars == <<storageVars, apiLoginPending, lastFetch>>

vars == <<appVars, loginVars, reqVars, adminVars, equipVars, historyVars, studentVars,
          borrowVars, timerVars, fixtureVars, serverVars, apiVars, lastAlert, apiOutcome>>

\* Everything but the server.
frontVars == <<appVars, loginVars, reqVars, adminVars, equipVars, historyVars, studentVars,
               borrowVars, timerVars, fixtureVars, apiVars, lastAlert, apiOutcome>>

\* The state of the page components.
pageVars == <<loginForm, loginError, loginLoading, loginPendingMounted,
              reqVars, adminVars, equipVars, historyVars, studentVars, borrowVars>>

\* What a handler of one page leaves alone: the App, the fixtures and every
\* other page.
othersOfLogin == <<user, location, visited, fixtureVars, serverVars, apiVars, timerVars, reqVars,
                   adminVars, equipVars, historyVars, studentVars, borrowVars>>

othersOfRequests == <<user, location, visited, fixtureVars, serverVars, apiVars, timerVars, loginVars,
                      adminVars, equipVars, historyVars, studentVars, borrowVars>>

othersOfAdmin == <<user, location, visited, fixtureVars, serverVars, apiVars, timerVars, loginVars,
                   reqVars, equipVars, historyVars, studentVars, borrowVars>>

othersOfEquip == <<user, location, visited, fixtureVars, serverVars, apiVars, timerVars, loginVars,
                   reqVars, adminVars, historyVars, studentVars, borrowVars>>

othersOfHistory == <<user, location, visited, fixtureVars, serverVars, apiVars, timerVars, loginVars,
                     reqVars, adminVars, equipVars, studentVars, borrowVars>>

othersOfStudent == <<user, location, visited, fixtureVars, serverVars, apiVars, timerVars, loginVars,
                     reqVars, adminVars, equipVars, historyVars, borrowVars>>

othersOfBorrow == <<user, location, visited, fixtureVars, serverVars, apiVars, loginVars, reqVars,
                    adminVars, equipVars, historyVars, studentVars>>

\* What a call hands to its caller.  kind is "return" or "throw"; of an error,
\* status is error.status (0 when the error has none) and message is
\* error.message; of a value, data tells whether it is defined, and message,
\* token and user are its members.
NoOutcome == [kind |-> "none", status |-> 0, message |-> "", data |-> FALSE,
              token |-> Null, user |-> NoUser]

(* ---------------------------------------------------------------------- *)
(* App: routing                                                            *)
(* ---------------------------------------------------------------------- *)
\* The routes with the admin pages gated by `user` alone.
RouteTargetAnyUser(path, u) ==
  CASE path = "/login" -> "/login"
    [] path = "/student-dashboard" ->
         IF u # NoUser /\ (u.role = "student" \/ u.role = "staff")
         THEN "/student-dashboard" ELSE "/login"
    [] path \in {"/admin-dashboard", "/equipment-management", "/requests",
                 "/borrow-history", "/borrow-equipment"} ->
         IF u # NoUser THEN path ELSE "/login"
    [] path = "/" ->
         IF u # NoUser
         THEN (IF u.role = "admin" THEN "/admin-dashboard" ELSE "/student-dashboard")
         ELSE "/login"
    [] OTHER -> "/"

\* The routes with /student-dashboard open to the role student only.
RouteTargetStudentsOnly(path, u) ==
  CASE path = "/login" -> "/login"
    [] path = "/student-dashboard" ->
         IF u # NoUser /\ u.role = "student" THEN "/student-dashboard" ELSE "/login"
    [] path \in {"/admin-dashboard", "/equipment-management", "/requests"} ->
         IF u # NoUser /\ u.role = "admin" THEN path ELSE "/login"
    [] path \in {"/borrow-history", "/borrow-equipment"} ->
         IF u # NoUser THEN path ELSE "/login"
    [] path = "/" ->
         IF u # NoUser
         THEN (IF u.role = "admin" THEN "/admin-dashboard" ELSE "/student-dashboard")
         ELSE "/login"
    [] OTHER -> "/"

\* The element each <Route> renders: the page itself or <Navigate to=...>; the
\* last case is the catch-all route.
RouteTarget(path, u) ==
  CASE path = "/login" -> "/login"
    [] path = "/student-dashboard" ->
         IF u # NoUser /\ (u.role = "student" \/ u.role = "staff")
         THEN "/student-dashboard" ELSE "/login"
    [] path = "/admin-dashboard" ->
         IF u # NoUser /\ u.role = "admin" THEN "/admin-dashboard" ELSE "/login"
    [] path = "/borrow-history" ->
         IF u # NoUser THEN "/borrow-history" ELSE "/login"
    [] path = "/equipment-management" ->
         IF u # NoUser /\ u.role = "admin" THEN "/equipment-management" ELSE "/login"
    [] path = "/borrow-equipment" ->
         IF u # NoUser THEN "/borrow-equipment" ELSE "/login"
    [] path = "/requests" ->
         IF u # NoUser /\ u.role = "admin" THEN "/requests" ELSE "/login"
    [] path = "/" ->
         IF u # NoUser
         THEN (IF u.role = "admin" THEN "/admin-dashboard" ELSE "/student-dashboard")
         ELSE "/login"
    [] OTHER -> "/"

\* Following <Navigate> elements until a page renders.
Resolve(path, u) ==
  LET t1 == RouteTarget(path, u) IN
  LET t2 == RouteTarget(t1, u) IN
  RouteTarget(t2, u)

\* The history entries the model records.  /login is the first entry of every
\* session, and going back to "/" renders what the brand link renders.
Recorded == Paths \ {"/login", "/"}

\* Every location passed through while resolving (each <Navigate> pushes).
Trail(path, u) ==
  {path, RouteTarget(path, u), RouteTarget(RouteTarget(path, u), u), Resolve(path, u)}

(* ---------------------------------------------------------------------- *)
(* Hook initialisers                                                       *)
(* ---------------------------------------------------------------------- *)
NoModal == [id |-> 0, action |-> "none"]

LoginFormInit == [email |-> "", password |-> "", role |-> "student"]

NoPending == "none"

NotFound == "undefined"

\* A form field that holds a number, or '' (what parseInt(value) || '' leaves
\* for an empty, non-numeric or zero input).
Num(n) == [kind |-> "number", n |-> n]

EmptyString == [kind |-> "string", n |-> 0]

\* EquipmentManagement: useState({name: '', ..., quantity: '', available: ''})
EquipFormInit == [name |-> "", quantity |-> EmptyString, available |-> EmptyString]

\* EquipmentManagement.mockEquipmentData: records with ids 1, 2, ... and
\* 0 <= available <= quantity
MockEquipment(i, q, a) == [id |-> i, name |-> "Item", quantity |-> q, available |-> a]

WellFormedEquipment(list) ==
  \A i \in DOMAIN list : /\ list[i].id = i
                          /\ 0 <= list[i].available
                          /\ list[i].available <= list[i].quantity

MockEquipmentLists ==
  { l \in { <<MockEquipment(1, q, a)>> : q \in 1..MaxQuantity, a \in 0..MaxQuantity } :
      WellFormedEquipment(l) }

\* String.prototype.toLowerCase, on the strings enumerated
ToLowerCase(str) ==
  CASE str \in {"Item", "ITEM"} -> "item"
    [] str = "John Student" -> "john student"
    [] str = "Jane Doe" -> "jane doe"
    [] str = "Mike Johnson" -> "mike johnson"
    [] str = "STU001" -> "stu001"
    [] str = "STU002" -> "stu002"
    [] str = "STU003" -> "stu003"
    [] OTHER -> str

\* String.prototype.includes, on the strings enumerated: the empty string and
\* the string itself are parts of it, and 'jane' is a part of 'jane doe'.
Includes(str, part) ==
  part = "" \/ part = str \/ <<str, part>> \in {<<"jane doe", "jane">>}

\* The requesters and the request dates of mockRequestsData, in its order.
StudentNames == <<"John Student", "Jane Doe", "Mike Johnson">>

StudentIds == <<"STU001", "STU002", "STU003">>

RequestedDates == <<"2025-11-02", "2025-11-02", "2025-11-01", "2025-11-01", "2025-10-31">>

\* A mock request as RequestsManagement.mockRequestsData lists them: decision
\* metadata is null exactly on the pending ones.
MockRequest(i, eq, st) ==
  [id |-> i, studentName |-> StudentNames[((i - 1) % Len(StudentNames)) + 1],
   studentId |-> StudentIds[((i - 1) % Len(StudentIds)) + 1],
   studentEmail |-> "student@example.com",
   equipmentName |-> "Item",
   requestedDate |-> RequestedDates[IF i <= Len(RequestedDates) THEN i
                                    ELSE Len(RequestedDates)],
   borrowFromDate |-> "2025-11-05", borrowToDate |-> "2025-11-10",
   purpose |-> "Sports practice and tournament",
   equipmentId |-> eq, status |-> st,
   approvedBy |-> IF st = "pending" THEN Null ELSE "Admin User",
   approvalDate |-> IF st = "pending" THEN Null ELSE FixtureDate,
   notes |-> IF st = "pending" THEN Null ELSE "note"]

\* The units of an equipment that requests hold: approved and not returned.
OnLoan(reqs, eq) ==
  Cardinality({ i \in DOMAIN reqs :
                  reqs[i].equipmentId = eq /\ reqs[i].status = "approved" })

\* The fixture lists: every request names an equipment of the equipment
\* fixture, and the units on loan are units the fixture counts as not available.
MockRequestLists(equip) ==
  { l \in { [i \in 1..MaxRequests |-> MockRequest(i, eq[i], st[i])] :
              eq \in [1..MaxRequests -> DOMAIN equip],
              st \in [1..MaxRequests -> Statuses] } :
      \A e \in DOMAIN equip :
         OnLoan(l, equip[e].id) <= equip[e].quantity - equip[e].available }

\* AdminDashboard.mockRecentRequests: every entry pending.
mockRecentRequests ==
  [i \in 1..MaxRequests |->
     [id |-> i, studentName |-> StudentNames[((i - 1) % Len(StudentNames)) + 1],
      studentId |-> i, equipmentName |-> "Item", requestedDate |-> "2025-11-02",
      status |-> "pending"]]

(* ---------------------------------------------------------------------- *)
(* Page state: a page that is not rendered is at its hook initialisers     *)
(* ---------------------------------------------------------------------- *)
LoginFormReset ==
  /\ loginForm' = LoginFormInit
  /\ loginError' = ""
  /\ loginLoading' = FALSE
  /\ loginPendingMounted' = FALSE

\* A page that is not rendered has no request list.
NoRequests == << >>

RequestsManagementReset ==
  /\ requests' = NoRequests
  /\ actionModal' = NoModal
  /\ actionNotes' = ""
  /\ requestsSearchTerm' = ""
  /\ requestsFilterStatus' = "all"

AdminDashboardReset ==
  /\ adminRequests' = mockRecentRequests
  /\ adminActionModal' = NoModal

EquipmentManagementReset ==
  /\ equipment' = mockEquipmentData
  /\ showModal' = FALSE
  /\ modalMode' = "add"
  /\ formData' = EquipFormInit
  /\ editingId' = 0
  /\ deleteConfirmId' = 0

\* BorrowEquipment: useState({equipmentId: '', ..., notes: ''}), useState({})
BorrowFormInit ==
  [equipmentId |-> "", equipmentName |-> "", borrowFromDate |-> "",
   borrowToDate |-> "", notes |-> ""]

\* An errors object without a message; a key that is not set reads as ''.
NoErrors == [equipmentId |-> "", borrowFromDate |-> "", borrowToDate |-> "", notes |-> ""]

BorrowEquipmentReset ==
  /\ borrowFormData' = BorrowFormInit
  /\ borrowErrors' = NoErrors
  /\ showConfirmation' = FALSE
  /\ isSubmitting' = FALSE
  /\ confirmPendingMounted' = FALSE

StudentDashboardReset ==
  /\ borrowRequests' = << >>
  /\ showBorrowModal' = FALSE
  /\ selectedEquipmentForBorrow' = 0

BorrowHistoryReset ==
  /\ historySearchTerm' = ""
  /\ historyFilterStatus' = "all"

\* The router renders the page of location p: a page that stays rendered
\* keeps its state, every page left is unmounted.
Render(p) ==
  /\ location' = p
  /\ IF p = location
     THEN UNCHANGED pageVars
     ELSE /\ LoginFormReset
          /\ EquipmentManagementReset
          /\ IF p = "/requests"
             THEN /\ requests' \in MockRequestLists(mockEquipmentData)
                  /\ actionModal' = NoModal
                  /\ actionNotes' = ""
                  /\ requestsSearchTerm' = ""
                  /\ requestsFilterStatus' = "all"
             ELSE RequestsManagementReset
          /\ AdminDashboardReset
          /\ BorrowHistoryReset
          /\ StudentDashboardReset
          /\ BorrowEquipmentReset

\* navigate(path) / <Link to=path>: push path and follow the <Navigate>s.
NavigateTo(path, u) ==
  /\ requested' = path
  /\ visited' = visited \cup (Trail(path, u) \cap Recorded)
  /\ Render(Resolve(path, u))

(* ---------------------------------------------------------------------- *)
(* Navbar                                                                  *)
(* ---------------------------------------------------------------------- *)
\* renderMenuItems plus the brand link
NavbarLinks(u) ==
  {"/"} \cup
  (IF u = NoUser THEN {"/login"}
   ELSE IF u.role = "admin"
        THEN {"/admin-dashboard", "/equipment-management", "/requests"}
        ELSE {"/student-dashboard", "/borrow-equipment", "/borrow-history"})

ClickLink(path) ==
  /\ path \in NavbarLinks(user)
  /\ NavigateTo(path, user)
  /\ UNCHANGED <<user, loginPending, fixtureVars, serverVars, apiVars, timerVars>>
  /\ lastAlert' = ""
  /\ apiOutcome' = NoOutcome

\* The browser's back/forward buttons: any entry of the session history.
HistoryGo(path) ==
  /\ path \in visited \cup {"/login"}
  /\ NavigateTo(path, user)
  /\ UNCHANGED <<user, loginPending, fixtureVars, serverVars, apiVars, timerVars>>
  /\ lastAlert' = ""
  /\ apiOutcome' = NoOutcome

\* A logout that leaves localStorage as it is.
clearNothing ==
  /\ token' = token
  /\ storedUser' = storedUser

\* api.clearAuthData: clearToken(); clearUser()
clearAuthData ==
  /\ token' = Null
  /\ storedUser' = NoUser

\* Navbar.handleLogout: clearAuthData(), onLogout(), navigate('/login')
handleLogout ==
  /\ user # NoUser
  /\ clearAuthData
  /\ user' = NoUser
  /\ NavigateTo("/login", NoUser)
  /\ UNCHANGED <<loginPending, fixtureVars, serverVars, apiLoginPending, lastFetch,
                  timerVars>>
  /\ lastAlert' = ""
  /\ apiOutcome' = NoOutcome

(* ---------------------------------------------------------------------- *)
(* LoginForm                                                               *)
(* ---------------------------------------------------------------------- *)
EmailInputs == {"", "not-an-email", "student@example.com", "staff@example.com",
                "admin@example.com"}

PasswordInputs == {"", "password123", "wrong"}

\* /^[^\s@]+@[^\s@]+\.[^\s@]+$/ .test(email), on the inputs enumerated
emailRegexTest(email) ==
  email \in {"student@example.com", "staff@example.com", "admin@example.com"}

\* A lookup that compares the email and the password only.
FindMockUserAnyRole(f) ==
  LET found == { u \in mockUsers : u.email = f.email /\ u.password = f.password }
  IN IF found = {} THEN NotFound ELSE (CHOOSE u \in found : TRUE).id

\* mockUsers.find(u => u.email === email && u.password === password && u.role === role)
FindMockUser(f) ==
  LET found == { u \in mockUsers :
                   u.email = f.email /\ u.password = f.password /\ u.role = f.role }
  IN IF found = {} THEN NotFound ELSE (CHOOSE u \in found : TRUE).id

LoginInputChange(name, value) ==
  /\ location = "/login"
  /\ ~loginLoading
  /\ \/ name = "email" /\ value \in EmailInputs
     \/ name = "password" /\ value \in PasswordInputs
     \/ name = "role" /\ value \in Roles
  /\ loginForm' = [loginForm EXCEPT ![name] = value]
  /\ loginForm' # loginForm
  /\ loginError' = ""
  /\ UNCHANGED <<othersOfLogin, loginLoading, loginPending, loginPendingMounted>>
  /\ requested' = Null
  /\ lastAlert' = ""
  /\ apiOutcome' = NoOutcome

\* LoginForm.handleSubmit up to its await
handleSubmitStart ==
  /\ location = "/login"
  /\ ~loginLoading
  /\ loginPending = NoPending
  /\ IF loginForm.email = "" \/ loginForm.password = ""
     THEN /\ loginError' = "Please fill in all fields"
          /\ UNCHANGED <<loginLoading, loginPending, loginPendingMounted>>
     ELSE IF ~emailRegexTest(loginForm.email)
     THEN /\ loginError' = "Please enter a valid email address"
          /\ UNCHANGED <<loginLoading, loginPending, loginPendingMounted>>
     ELSE /\ loginError' = ""
          /\ loginLoading' = TRUE
          /\ loginPending' = FindMockUser(loginForm)
          /\ loginPendingMounted' = TRUE
  /\ UNCHANGED <<othersOfLogin, loginForm>>
  /\ requested' = Null
  /\ lastAlert' = ""
  /\ apiOutcome' = NoOutcome

\* LoginForm.handleSubmit after the await: lookup, onLogin, navigate
handleSubmitFinish ==
  /\ loginPending # NoPending
  /\ loginPending' = NoPending
  /\ UNCHANGED <<fixtureVars, serverVars, apiVars, timerVars>>
  /\ IF loginPending = NotFound
     THEN /\ IF loginPendingMounted
             THEN /\ loginError' =
                       "Invalid email, password, or role. Please check your credentials."
                  /\ loginLoading' = FALSE
             ELSE UNCHANGED <<loginError, loginLoading>>
          /\ loginPendingMounted' = FALSE
          /\ requested' = Null
          /\ UNCHANGED <<user, location, visited, reqVars, adminVars, equipVars,
                          historyVars, studentVars, borrowVars, loginForm>>
     ELSE LET u == CHOOSE x \in mockUsers : x.id = loginPending IN
          LET logged == [id |-> u.id, name |-> u.name, email |-> u.email,
                         role |-> u.role] IN
          /\ user' = logged
          /\ NavigateTo(IF u.role = "admin" THEN "/admin-dashboard"
                        ELSE "/student-dashboard", logged)
  /\ lastAlert' = ""
  /\ apiOutcome' = NoOutcome

(* ---------------------------------------------------------------------- *)
(* api.js: the login call and the session in localStorage                  *)
(* ---------------------------------------------------------------------- *)
\* The accounts the server knows: the three seeded users.
ServerAccounts == mockUsers

\* The token the server issues to an account.
TokenOf(account) == [student |-> "token-student", staff |-> "token-staff",
                     admin |-> "token-admin"][account.role]

\* What an api.js call leaves alone: the App, the pages, the fixtures, the server.
othersOfApi == <<appVars, loginVars, reqVars, adminVars, equipVars, historyVars,
                 studentVars, borrowVars, timerVars, fixtureVars, serverVars>>

\* What fetch() resolves with, as far as api.js reads it: response.status (0
\* stands for a fetch that rejects, no response at all), response.statusText,
\* whether the body parses as JSON, the body's message member (Null when it has
\* none), whether it has a data member, and data.token and data.user.
Response(call, status, statusText, body, message, data, tok, u) ==
  [call |-> call, status |-> status, statusText |-> statusText, body |-> body,
   message |-> message, data |-> data, token |-> tok, user |-> u]

\* No call of authLogin or authRegister is in flight.
NoCall == Response("none", 0, "", "none", Null, FALSE, Null, NoUser)

Unauthorized ==
  Response("login", 401, "Unauthorized", "json", "Invalid credentials", FALSE, Null, NoUser)

\* Response.ok
ResponseOk(response) == response.status >= 200 /\ response.status <= 299

\* POST /api/auth/login: a token and the profile when email, password and role
\* are those of an account, 401 otherwise.
ServerLogin(email, password, role) ==
  LET found == { a \in ServerAccounts :
                   a.email = email /\ a.password = password /\ a.role = role } IN
  IF found = {} THEN Unauthorized
  ELSE LET a == CHOOSE x \in found : TRUE IN
       Response("login", 200, "OK", "json", "Login successful", TRUE, TokenOf(a),
                [id |-> a.id, name |-> a.name, email |-> a.email, role |-> a.role])

\* The answers a call can get when the network or the server fails, or when
\* the body is not what the client expects: no response, an HTML error page,
\* an error page without a reason phrase, a JSON error without a message
\* member, a body that is not JSON, a body without data, data without a token,
\* data with a token and no user.
FaultResponses(call) ==
  { Response(call, 0, "", "none", Null, FALSE, Null, NoUser),
    Response(call, 500, "Internal Server Error", "text", Null, FALSE, Null, NoUser),
    Response(call, 502, "", "text", Null, FALSE, Null, NoUser),
    Response(call, 404, "Not Found", "json", Null, FALSE, Null, NoUser),
    Response(call, 200, "OK", "text", Null, FALSE, Null, NoUser),
    Response(call, 200, "OK", "json", "ok", FALSE, Null, NoUser),
    Response(call, 200, "OK", "json", "ok", TRUE, Null, NoUser),
    Response(call, 200, "OK", "json", "ok", TRUE, "token-staff", NoUser) }

\* A request without an Authorization header, and one with 'Bearer <token>'.
NoAuthorization == [scheme |-> "none", token |-> Null]

Bearer(tok) == [scheme |-> "Bearer", token |-> tok]

\* api.getHeaders: const token = getToken(); if (token) headers['Authorization'] = ...
getHeaders == IF token # Null /\ token # "" THEN Bearer(token) ELSE NoAuthorization

\* No fetch was made yet.
NoFetch == [authorization |-> NoAuthorization, seq |-> 0]

\* fetch(url, {method, headers: getHeaders(), ...})
Fetch == [authorization |-> getHeaders, seq |-> 1 - lastFetch.seq]

ThrownError(status, message) ==
  [kind |-> "throw", status |-> status, message |-> message, data |-> FALSE,
   token |-> Null, user |-> NoUser]

ReturnedValue(message, data, tok, u) ==
  [kind |-> "return", status |-> 0, message |-> message, data |-> data,
   token |-> tok, user |-> u]

\* api.handleError: errorMessage = data.message || 'An error occurred' when
\* response.json() resolves, response.statusText || 'An error occurred' when it
\* rejects; throws an Error with that message and status = response.status
handleError(response) ==
  ThrownError(response.status,
         IF response.body = "json"
         THEN (IF response.message # Null /\ response.message # ""
               THEN response.message ELSE "An error occurred")
         ELSE (IF response.statusText # ""
               THEN response.statusText ELSE "An error occurred"))

\* A call that hands back whatever body came, whatever the status.
SettleUnchecked(response) ==
  IF response.status = 0 THEN ThrownError(0, "Failed to fetch")
  ELSE ReturnedValue(IF response.message = Null THEN "" ELSE response.message,
                     response.data, response.token, response.user)

\* The body of apiGet, apiPost, apiPut and apiDelete after fetch() settled: a
\* rejected fetch is rethrown, a response that is not ok goes to handleError,
\* otherwise response.json() is returned (it rejects on a body that is not JSON).
Settle(response) ==
  IF response.status = 0 THEN ThrownError(0, "Failed to fetch")
  ELSE IF ~ResponseOk(response) THEN handleError(response)
  ELSE IF response.body # "json" THEN ThrownError(0, "Unexpected token < in JSON")
  ELSE ReturnedValue(IF response.message = Null THEN "" ELSE response.message, response.data,
                response.token, response.user)

\* The bodies a server sends to a call that stores nothing: a success, an
\* error with a message, and the failures of FaultResponses.
CallResponses(method) ==
  { Response(method, 200, "OK", "json", "ok", TRUE, Null, NoUser),
    Response(method, 403, "Forbidden", "json", "Access denied", FALSE, Null, NoUser) }
  \cup FaultResponses(method)

\* api.apiGet, apiPost, apiPut and apiDelete (and authGetMe) called by a page:
\* the fetch carries getHeaders(), and what comes back is returned or thrown.
\* Nothing is stored.
apiRequest(method, response) ==
  /\ response.call = method
  /\ lastFetch' = Fetch
  /\ apiOutcome' = Settle(response)
  /\ UNCHANGED <<othersOfApi, storageVars, apiLoginPending>>
  /\ lastAlert' = ""

apiGet(response) == apiRequest("GET", response)

apiPost(response) == apiRequest("POST", response)

apiPut(response) == apiRequest("PUT", response)

apiDelete(response) == apiRequest("DELETE", response)

\* api.setToken: if (token) localStorage.setItem(TOKEN_KEY, token)
setToken(tok) == token' = IF tok # Null /\ tok # "" THEN tok ELSE token

\* api.setUser: if (user) localStorage.setItem(USER_KEY, JSON.stringify(user))
setUser(u) == storedUser' = IF u # NoUser THEN u ELSE storedUser

\* A caller's setToken(token)
setTokenCall(tok) ==
  /\ setToken(tok)
  /\ UNCHANGED <<othersOfApi, storedUser, apiLoginPending, lastFetch>>
  /\ lastAlert' = ""
  /\ apiOutcome' = NoOutcome

\* A caller's setUser(user)
setUserCall(u) ==
  /\ setUser(u)
  /\ UNCHANGED <<othersOfApi, token, apiLoginPending, lastFetch>>
  /\ lastAlert' = ""
  /\ apiOutcome' = NoOutcome

\* api.authLogout: clearAuthData()
authLogout ==
  /\ clearAuthData
  /\ UNCHANGED <<othersOfApi, apiLoginPending, lastFetch>>
  /\ lastAlert' = ""
  /\ apiOutcome' = NoOutcome

\* authLogin and authRegister after `const response = await apiPost(...)`: an
\* error of apiPost passes through (there is no catch); otherwise
\* if (response.data && response.data.token) { setToken(...); setUser(...) }
\* and response.data is returned.
StoreSession(response) ==
  LET result == Settle(response) IN
  IF result.kind = "throw"
  THEN /\ UNCHANGED storageVars
       /\ apiOutcome' = result
  ELSE /\ IF result.data /\ result.token # Null /\ result.token # ""
          THEN setToken(result.token) /\ setUser(result.user)
          ELSE UNCHANGED storageVars
       /\ apiOutcome' = IF result.data
                        THEN ReturnedValue("", TRUE, result.token, result.user)
                        ELSE ReturnedValue("", FALSE, Null, NoUser)

\* api.authLogin up to the await of apiPost: the request is sent and the
\* answer is on its way
authLoginStart(email, password, role, response) ==
  /\ apiLoginPending = NoCall
  /\ response \in {ServerLogin(email, password, role)} \cup FaultResponses("login")
  /\ apiLoginPending' = response
  /\ lastFetch' = Fetch
  /\ UNCHANGED <<othersOfApi, storageVars>>
  /\ lastAlert' = ""
  /\ apiOutcome' = NoOutcome

\* api.authLogin after the await
authLoginFinish ==
  /\ apiLoginPending.call = "login"
  /\ apiLoginPending' = NoCall
  /\ StoreSession(apiLoginPending)
  /\ UNCHANGED <<othersOfApi, lastFetch>>
  /\ lastAlert' = ""

\* The addresses a registration is tried with: a new one and a taken one.
RegisterEmails == {"new@example.com", "student@example.com"}

\* POST /api/auth/register: a token and the profile of the new account, 400
\* when the email is taken.
ServerRegister(email, role) ==
  IF \E a \in ServerAccounts : a.email = email
  THEN Response("register", 400, "Bad Request", "json", "Email already registered", FALSE,
                Null, NoUser)
  ELSE Response("register", 201, "Created", "json", "Registration successful", TRUE,
                TokenOf([role |-> role]),
                [id |-> "4", name |-> "New User", email |-> email, role |-> role])

\* api.authRegister up to the await of apiPost
authRegisterStart(email, role, response) ==
  /\ apiLoginPending = NoCall
  /\ response \in {ServerRegister(email, role)} \cup FaultResponses("register")
  /\ apiLoginPending' = response
  /\ lastFetch' = Fetch
  /\ UNCHANGED <<othersOfApi, storageVars>>
  /\ lastAlert' = ""
  /\ apiOutcome' = NoOutcome

\* api.authRegister after the await
authRegisterFinish ==
  /\ apiLoginPending.call = "register"
  /\ apiLoginPending' = NoCall
  /\ StoreSession(apiLoginPending)
  /\ UNCHANGED <<othersOfApi, lastFetch>>
  /\ lastAlert' = ""

(* ---------------------------------------------------------------------- *)
(* RequestsManagement                                                      *)
(* ---------------------------------------------------------------------- *)
\* A table that renders every action button on every row.
RowActionsUngated(status) == {"approve", "reject", "return"}

\* The action buttons a table row renders for a request of this status.
RowActions(status) ==
  IF status = "pending" THEN {"approve", "reject"}
  ELSE IF status = "approved" THEN {"return"}
  ELSE {}

\* What the search box of RequestsManagement is given.
RequestSearchInputs == {"", "ITEM", "jane", "stu001", "zzz"}

\* RequestsManagement.getFilteredRequests
getFilteredRequests(reqs, searchTerm, filterStatus) ==
  LET bySearch ==
        IF searchTerm # ""
        THEN SelectSeq(reqs, LAMBDA req :
               \/ Includes(ToLowerCase(req.studentName), ToLowerCase(searchTerm))
               \/ Includes(ToLowerCase(req.equipmentName), ToLowerCase(searchTerm))
               \/ Includes(ToLowerCase(req.studentId), ToLowerCase(searchTerm)))
        ELSE reqs IN
  IF filterStatus # "all"
  THEN SelectSeq(bySearch, LAMBDA req : req.status = filterStatus)
  ELSE bySearch

\* const filteredRequests = getFilteredRequests(): the rows of the table
filteredRequests == getFilteredRequests(requests, requestsSearchTerm, requestsFilterStatus)

\* The action modal is a full-page overlay over the search box, the status
\* select and the table.
\* onChange={(e) => setSearchTerm(e.target.value)}
SetRequestsSearchTerm(term) ==
  /\ location = "/requests"
  /\ actionModal = NoModal
  /\ term # requestsSearchTerm
  /\ requestsSearchTerm' = term
  /\ UNCHANGED <<othersOfRequests, requests, actionModal, actionNotes,
                  requestsFilterStatus>>
  /\ requested' = Null
  /\ lastAlert' = ""
  /\ apiOutcome' = NoOutcome

\* onChange={(e) => setFilterStatus(e.target.value)}
SetRequestsFilterStatus(status) ==
  /\ location = "/requests"
  /\ actionModal = NoModal
  /\ status # requestsFilterStatus
  /\ requestsFilterStatus' = status
  /\ UNCHANGED <<othersOfRequests, requests, actionModal, actionNotes,
                  requestsSearchTerm>>
  /\ requested' = Null
  /\ lastAlert' = ""
  /\ apiOutcome' = NoOutcome

\* onClick={() => setActionModal({ id: request.id, action })}, on a row of
\* filteredRequests
OpenActionModal(i, action) ==
  /\ location = "/requests"
  /\ i \in DOMAIN requests
  /\ \E k \in DOMAIN filteredRequests : filteredRequests[k].id = requests[i].id
  /\ action \in RowActions(requests[i].status)
  /\ actionModal' = [id |-> requests[i].id, action |-> action]
  /\ actionModal' # actionModal
  /\ UNCHANGED <<othersOfRequests, requests, actionNotes, requestsSearchTerm,
                  requestsFilterStatus>>
  /\ requested' = Null
  /\ lastAlert' = ""
  /\ apiOutcome' = NoOutcome

\* the modal's close and Cancel buttons: setActionModal(null)
CloseActionModal ==
  /\ location = "/requests"
  /\ actionModal # NoModal
  /\ actionModal' = NoModal
  /\ UNCHANGED <<othersOfRequests, requests, actionNotes, requestsSearchTerm,
                  requestsFilterStatus>>
  /\ requested' = Null
  /\ lastAlert' = ""
  /\ apiOutcome' = NoOutcome

\* the modal's textarea: setActionNotes(e.target.value)
SetActionNotes(text) ==
  /\ location = "/requests"
  /\ actionModal # NoModal
  /\ text \in NoteTexts
  /\ text # actionNotes
  /\ actionNotes' = text
  /\ UNCHANGED <<othersOfRequests, requests, actionModal, requestsSearchTerm,
                  requestsFilterStatus>>
  /\ requested' = Null
  /\ lastAlert' = ""
  /\ apiOutcome' = NoOutcome

\* An approve that approves every request of the list.
ApproveMapAll(reqs, requestId, name, notes) ==
  [i \in DOMAIN reqs |->
     [reqs[i] EXCEPT !.status = "approved", !.approvedBy = name,
                     !.approvalDate = Today, !.notes = notes]]

\* requests.map(req => req.id === requestId ? {...req, status: 'approved', ...} : req)
ApproveMap(reqs, requestId, name, notes) ==
  [i \in DOMAIN reqs |->
     IF reqs[i].id = requestId
     THEN [reqs[i] EXCEPT !.status = "approved", !.approvedBy = name,
                          !.approvalDate = Today, !.notes = notes]
     ELSE reqs[i]]

\* A reject that takes the request off the list.
RejectMapDropping(reqs, requestId, name, notes) ==
  SelectSeq(reqs, LAMBDA req : req.id # requestId)

RejectMap(reqs, requestId, name, notes) ==
  [i \in DOMAIN reqs |->
     IF reqs[i].id = requestId
     THEN [reqs[i] EXCEPT !.status = "rejected", !.approvedBy = name,
                          !.approvalDate = Today, !.notes = notes]
     ELSE reqs[i]]

\* notes: actionNotes || req.notes
ReturnMap(reqs, requestId, notes) ==
  [i \in DOMAIN reqs |->
     IF reqs[i].id = requestId
     THEN [reqs[i] EXCEPT !.status = "returned",
                          !.notes = IF notes # "" THEN notes ELSE reqs[i].notes]
     ELSE reqs[i]]

\* the modal's confirm button with action 'approve': handleApprove(actionModal.id)
handleApprove ==
  /\ location = "/requests"
  /\ actionModal.action = "approve"
  /\ requests' = ApproveMap(requests, actionModal.id, user.name, actionNotes)
  /\ actionModal' = NoModal
  /\ actionNotes' = ""
  /\ lastAlert' = "Request approved successfully!"
  /\ apiOutcome' = NoOutcome
  /\ UNCHANGED <<othersOfRequests, requestsSearchTerm, requestsFilterStatus>>
  /\ requested' = Null

handleReject ==
  /\ location = "/requests"
  /\ actionModal.action = "reject"
  /\ requests' = RejectMap(requests, actionModal.id, user.name, actionNotes)
  /\ actionModal' = NoModal
  /\ actionNotes' = ""
  /\ lastAlert' = "Request rejected successfully!"
  /\ apiOutcome' = NoOutcome
  /\ UNCHANGED <<othersOfRequests, requestsSearchTerm, requestsFilterStatus>>
  /\ requested' = Null

handleMarkReturned ==
  /\ location = "/requests"
  /\ actionModal.action = "return"
  /\ requests' = ReturnMap(requests, actionModal.id, actionNotes)
  /\ actionModal' = NoModal
  /\ actionNotes' = ""
  /\ lastAlert' = "Equipment marked as returned!"
  /\ apiOutcome' = NoOutcome
  /\ UNCHANGED <<othersOfRequests, requestsSearchTerm, requestsFilterStatus>>
  /\ requested' = Null

(* ---------------------------------------------------------------------- *)
(* AdminDashboard                                                          *)
(* ---------------------------------------------------------------------- *)
\* The pending-requests table lists requests.filter(req => req.status === 'pending')
\* and each row has an Approve and a Reject button.
AdminRowActions(status) ==
  IF status = "pending" THEN {"approve", "reject"} ELSE {}

AdminOpenActionModal(i, action) ==
  /\ location = "/admin-dashboard"
  /\ i \in DOMAIN adminRequests
  /\ action \in AdminRowActions(adminRequests[i].status)
  /\ adminActionModal' = [id |-> adminRequests[i].id, action |-> action]
  /\ adminActionModal' # adminActionModal
  /\ UNCHANGED <<othersOfAdmin, adminRequests>>
  /\ requested' = Null
  /\ lastAlert' = ""
  /\ apiOutcome' = NoOutcome

AdminCloseActionModal ==
  /\ location = "/admin-dashboard"
  /\ adminActionModal # NoModal
  /\ adminActionModal' = NoModal
  /\ UNCHANGED <<othersOfAdmin, adminRequests>>
  /\ requested' = Null
  /\ lastAlert' = ""
  /\ apiOutcome' = NoOutcome

AdminStatusMap(reqs, requestId, st) ==
  [i \in DOMAIN reqs |->
     IF reqs[i].id = requestId THEN [reqs[i] EXCEPT !.status = st] ELSE reqs[i]]

\* the confirm button: action === 'approve' ? handleApproveRequest : handleRejectRequest
handleApproveRequest ==
  /\ location = "/admin-dashboard"
  /\ adminActionModal.action = "approve"
  /\ adminRequests' = AdminStatusMap(adminRequests, adminActionModal.id, "approved")
  /\ adminActionModal' = NoModal
  /\ lastAlert' = "Request approved successfully!"
  /\ apiOutcome' = NoOutcome
  /\ UNCHANGED othersOfAdmin
  /\ requested' = Null

handleRejectRequest ==
  /\ location = "/admin-dashboard"
  /\ adminActionModal # NoModal
  /\ adminActionModal.action # "approve"
  /\ adminRequests' = AdminStatusMap(adminRequests, adminActionModal.id, "rejected")
  /\ adminActionModal' = NoModal
  /\ lastAlert' = "Request rejected successfully!"
  /\ apiOutcome' = NoOutcome
  /\ UNCHANGED othersOfAdmin
  /\ requested' = Null

(* ---------------------------------------------------------------------- *)
(* BorrowHistory                                                           *)
(* ---------------------------------------------------------------------- *)
\* The statuses of mockBorrowHistory, in its order.
HistoryStatuses == <<"approved", "returned", "pending", "rejected", "returned">>

\* The request dates of mockBorrowHistory, in its order.
HistoryRequestedDates ==
  <<"2025-10-31", "2025-10-27", "2025-11-02", "2025-11-01", "2025-10-19">>

\* BorrowHistory.mockBorrowHistory: the records carry no requester.
mockBorrowHistory ==
  [i \in 1..Len(HistoryStatuses) |->
     [id |-> i, equipmentName |-> "Item", equipmentId |-> i,
      requestedDate |-> HistoryRequestedDates[i], status |-> HistoryStatuses[i]]]

SearchInputs == {"", "ITEM", "zzz"}

\* BorrowHistory.getFilteredHistory
getFilteredHistory(history, searchTerm, filterStatus) ==
  LET bySearch == IF searchTerm # ""
                  THEN SelectSeq(history, LAMBDA item :
                         Includes(ToLowerCase(item.equipmentName), ToLowerCase(searchTerm)))
                  ELSE history IN
  IF filterStatus # "all"
  THEN SelectSeq(bySearch, LAMBDA item : item.status = filterStatus)
  ELSE bySearch

\* The rows BorrowHistory renders when its prop `user` is u: the component
\* never reads the prop.
BorrowHistoryRows(u) ==
  getFilteredHistory(mockBorrowHistory, historySearchTerm, historyFilterStatus)

\* onChange={(e) => setSearchTerm(e.target.value)}
SetHistorySearchTerm(term) ==
  /\ location = "/borrow-history"
  /\ term # historySearchTerm
  /\ historySearchTerm' = term
  /\ UNCHANGED <<othersOfHistory, historyFilterStatus>>
  /\ requested' = Null
  /\ lastAlert' = ""
  /\ apiOutcome' = NoOutcome

\* onChange={(e) => setFilterStatus(e.target.value)}
SetHistoryFilterStatus(status) ==
  /\ location = "/borrow-history"
  /\ status # historyFilterStatus
  /\ historyFilterStatus' = status
  /\ UNCHANGED <<othersOfHistory, historySearchTerm>>
  /\ requested' = Null
  /\ lastAlert' = ""
  /\ apiOutcome' = NoOutcome

(* ---------------------------------------------------------------------- *)
(* StudentDashboard                                                        *)
(* ---------------------------------------------------------------------- *)
\* The ids of the equipment cards the dashboard lists.
CardIds == 1..MaxEquipment

\* The borrow modal is a full-page overlay over the cards.
\* EquipmentCard's onBorrow: handleBorrowClick(equipmentItem)
handleBorrowClick(id) ==
  /\ location = "/student-dashboard"
  /\ ~(showBorrowModal /\ selectedEquipmentForBorrow # 0)
  /\ selectedEquipmentForBorrow' = id
  /\ showBorrowModal' = TRUE
  /\ UNCHANGED <<othersOfStudent, borrowRequests>>
  /\ requested' = Null
  /\ lastAlert' = ""
  /\ apiOutcome' = NoOutcome

\* the modal's Cancel button: setShowBorrowModal(false)
CloseBorrowModal ==
  /\ location = "/student-dashboard"
  /\ showBorrowModal /\ selectedEquipmentForBorrow # 0
  /\ showBorrowModal' = FALSE
  /\ UNCHANGED <<othersOfStudent, borrowRequests, selectedEquipmentForBorrow>>
  /\ requested' = Null
  /\ lastAlert' = ""
  /\ apiOutcome' = NoOutcome

\* The request object handleSubmitBorrow builds.
NewBorrowRequest(list, u, id) ==
  [id |-> Len(list) + 1, studentId |-> u.id, studentName |-> u.name,
   equipmentId |-> id, equipmentName |-> "Item", borrowDate |-> Today,
   requestDate |-> Today, status |-> "pending"]

\* the modal's Confirm Request button
handleSubmitBorrow ==
  /\ location = "/student-dashboard"
  /\ showBorrowModal /\ selectedEquipmentForBorrow # 0
  /\ Len(borrowRequests) < MaxRequests
  /\ borrowRequests' =
       Append(borrowRequests,
              NewBorrowRequest(borrowRequests, user, selectedEquipmentForBorrow))
  /\ showBorrowModal' = FALSE
  /\ selectedEquipmentForBorrow' = 0
  /\ lastAlert' = "Borrow request submitted for Item"
  /\ apiOutcome' = NoOutcome
  /\ UNCHANGED othersOfStudent
  /\ requested' = Null

(* ---------------------------------------------------------------------- *)
(* BorrowEquipment                                                         *)
(* ---------------------------------------------------------------------- *)
\* The values of the <select>: '' and the ids of the options.
EquipmentOptions == {""} \cup {"1"}

\* The values a date input can hold: '' or a day, today or later.
DateInputs == {"", "2025-11-04", "2025-11-05"}

PurposeInputs == {"", "note"}

\* new Date(value).getTime(), in days, on the dates enumerated
DateValue(value) == IF value = "2025-11-04" THEN 4 ELSE 5

\* equipment.find(item => item.id === parseInt(selectedId)): its name, or ''
OptionName(selectedId) == IF selectedId = "1" THEN "Item" ELSE ""

\* handleEquipmentChange, handleInputChange and the submit button lie under
\* the confirmation modal while it shows.
BorrowEquipment_handleEquipmentChange(selectedId) ==
  /\ location = "/borrow-equipment"
  /\ ~showConfirmation
  /\ selectedId # borrowFormData.equipmentId
  /\ borrowFormData' = [borrowFormData EXCEPT !.equipmentId = selectedId,
                                               !.equipmentName = OptionName(selectedId)]
  /\ borrowErrors' = [borrowErrors EXCEPT !.equipmentId = ""]
  /\ UNCHANGED <<othersOfBorrow, timerVars, showConfirmation, isSubmitting,
                  confirmPendingMounted>>
  /\ requested' = Null
  /\ lastAlert' = ""
  /\ apiOutcome' = NoOutcome

BorrowEquipment_handleInputChange(name, value) ==
  /\ location = "/borrow-equipment"
  /\ ~showConfirmation
  /\ value # borrowFormData[name]
  /\ borrowFormData' = [borrowFormData EXCEPT ![name] = value]
  /\ borrowErrors' = [borrowErrors EXCEPT ![name] = ""]
  /\ UNCHANGED <<othersOfBorrow, timerVars, showConfirmation, isSubmitting,
                  confirmPendingMounted>>
  /\ requested' = Null
  /\ lastAlert' = ""
  /\ apiOutcome' = NoOutcome

\* The newErrors object of validateForm.
validateForm(f) ==
  [equipmentId |-> IF f.equipmentId = "" THEN "Please select equipment" ELSE "",
   borrowFromDate |-> IF f.borrowFromDate = "" THEN "Please select a borrow date" ELSE "",
   borrowToDate |->
     IF f.borrowFromDate # "" /\ f.borrowToDate # ""
        /\ DateValue(f.borrowFromDate) >= DateValue(f.borrowToDate)
     THEN "Return date must be after borrow date"
     ELSE IF f.borrowToDate = "" THEN "Please select a return date" ELSE "",
   notes |-> IF f.notes = "" THEN "Please enter purpose/notes" ELSE ""]

\* The browser's constraint validation of the form: min={formData.borrowFromDate
\* || getTodayDate()} on the return date (every date enumerated is today or later).
ConstraintsValid(f) ==
  (f.borrowFromDate # "" /\ f.borrowToDate # "")
    => DateValue(f.borrowToDate) >= DateValue(f.borrowFromDate)

\* BorrowEquipment.handleSubmit
handleSubmit ==
  /\ location = "/borrow-equipment"
  /\ ~showConfirmation
  /\ ConstraintsValid(borrowFormData)
  /\ borrowErrors' = validateForm(borrowFormData)
  /\ showConfirmation' = (validateForm(borrowFormData) = NoErrors)
  /\ UNCHANGED <<othersOfBorrow, timerVars, borrowFormData, isSubmitting,
                  confirmPendingMounted>>
  /\ requested' = Null
  /\ lastAlert' = ""
  /\ apiOutcome' = NoOutcome

\* the modal's close button: setShowConfirmation(false); the Cancel button does
\* the same and is disabled while isSubmitting
CloseConfirmation ==
  /\ location = "/borrow-equipment"
  /\ showConfirmation
  /\ showConfirmation' = FALSE
  /\ UNCHANGED <<othersOfBorrow, timerVars, borrowFormData, borrowErrors, isSubmitting,
                  confirmPendingMounted>>
  /\ requested' = Null
  /\ lastAlert' = ""
  /\ apiOutcome' = NoOutcome

\* BorrowEquipment.handleConfirmSubmit up to its await: the Confirm button of
\* the modal, disabled={isSubmitting}; setIsSubmitting(true)
handleConfirmSubmitStart ==
  /\ location = "/borrow-equipment"
  /\ showConfirmation
  /\ ~isSubmitting
  /\ confirmPending < MaxPending
  /\ isSubmitting' = TRUE
  /\ confirmPending' = confirmPending + 1
  /\ confirmPendingMounted' = TRUE
  /\ UNCHANGED <<othersOfBorrow, redirectPending, borrowFormData, borrowErrors,
                  showConfirmation>>
  /\ requested' = Null
  /\ lastAlert' = ""
  /\ apiOutcome' = NoOutcome

\* The call that resumes is one of an instance unmounted since: the timers
\* all wait 1000 ms and fire in the order they were set, and an instance left
\* set its timer before the instance now mounted.
ResumesUnmounted == confirmPending > (IF confirmPendingMounted THEN 1 ELSE 0)

\* BorrowEquipment.handleConfirmSubmit after the await: alert, reset the form,
\* close the modal, schedule the redirect, and the finally block.  The state
\* setters of an instance that was unmounted change nothing.
handleConfirmSubmitFinish ==
  /\ confirmPending > 0
  /\ redirectPending < MaxPending
  /\ confirmPending' = confirmPending - 1
  /\ redirectPending' = redirectPending + 1
  /\ lastAlert' =
       "Borrow request submitted successfully! An admin will review your request soon."
  /\ apiOutcome' = NoOutcome
  /\ IF ResumesUnmounted
     THEN UNCHANGED borrowVars
     ELSE /\ borrowFormData' = BorrowFormInit
          /\ showConfirmation' = FALSE
          /\ isSubmitting' = FALSE
          /\ confirmPendingMounted' = FALSE
          /\ UNCHANGED borrowErrors
  /\ UNCHANGED othersOfBorrow
  /\ requested' = Null

\* setTimeout(() => navigate('/borrow-history'), 1000) fires
RedirectToHistory ==
  /\ redirectPending > 0
  /\ redirectPending' = redirectPending - 1
  /\ NavigateTo("/borrow-history", user)
  /\ UNCHANGED <<user, loginPending, fixtureVars, serverVars, apiVars, confirmPending>>
  /\ lastAlert' = ""
  /\ apiOutcome' = NoOutcome

(* ---------------------------------------------------------------------- *)
(* Request routes of the Express server                                    *)
(* ---------------------------------------------------------------------- *)
\* The routes with the controller of approve ahead of its role check.
RequestRoutesControllerEarly ==
  [ create  |-> <<"authenticate", "studentOnly", "createRequest">>,
    user    |-> <<"authenticate", "getUserRequests">>,
    list    |-> <<"authenticate", "adminOnly", "getAllRequests">>,
    approve |-> <<"authenticate", "approveRequest", "adminOnly">>,
    reject  |-> <<"authenticate", "adminOnly", "rejectRequest">>,
    return  |-> <<"authenticate", "adminOnly", "markReturned">>,
    stats   |-> <<"authenticate", "adminOnly", "getAdminStats">> ]

\* requestRoutes: the middleware of each route, in the order router.METHOD
\* lists them, the controller last.
RequestRoutes ==
  [ create  |-> <<"authenticate", "studentOnly", "createRequest">>,
    user    |-> <<"authenticate", "getUserRequests">>,
    list    |-> <<"authenticate", "adminOnly", "getAllRequests">>,
    approve |-> <<"authenticate", "adminOnly", "approveRequest">>,
    reject  |-> <<"authenticate", "adminOnly", "rejectRequest">>,
    return  |-> <<"authenticate", "adminOnly", "markReturned">>,
    stats   |-> <<"authenticate", "adminOnly", "getAdminStats">> ]

\* The routes of the operations that are the administrator's.
AdminOnlyRoutes == {"list", "approve", "reject", "return", "stats"}

\* Middleware m is on the route's chain, before its controller.
RunsBeforeController(m, route) ==
  \E k \in 1..(Len(RequestRoutes[route]) - 1) : RequestRoutes[route][k] = m

\* The role checks among the middleware, and the roles each admits.
RoleChecks == {"adminOnly", "studentOnly"}

AllowedRoles(m) == IF m = "adminOnly" THEN {"admin"} ELSE {"student", "staff"}

\* The controller of a route: the last handler router.METHOD lists.
ControllerOf(route) == RequestRoutes[route][Len(RequestRoutes[route])]

\* What the Authorization header of a call can carry: nothing, a string that
\* is no token, or the token of an account.
Credentials == {Null, "invalid", "token-student", "token-staff", "token-admin"}

\* authenticate's verification of the bearer token: the role of the account
\* the token was issued to, Null for a missing or invalid token.
VerifyToken(credential) ==
  LET owners == { a \in ServerAccounts : TokenOf(a) = credential } IN
  IF owners = {} THEN Null ELSE (CHOOSE a \in owners : TRUE).role

\* No call is being handled.
NoServerCall ==
  [route |-> "none", credential |-> Null, id |-> 0, step |-> 0, status |-> -1,
   role |-> Null, trace |-> << >>]

\* The handler the router runs next for the call being handled.
CurrentHandler ==
  IF serverCall.status = 0 THEN RequestRoutes[serverCall.route][serverCall.step]
  ELSE "none"

\* next(): the router moves on to the following handler of the chain.
CallNext(role) ==
  [serverCall EXCEPT !.step = serverCall.step + 1, !.role = role,
                     !.trace = Append(serverCall.trace, CurrentHandler)]

\* res.status(code).json(...): the chain ends with this response.
Respond(code) ==
  [serverCall EXCEPT !.status = code,
                     !.trace = Append(serverCall.trace, CurrentHandler)]

\* The router matches a call to a route and starts its chain.  The server
\* handles one call to completion before the next.
ServerReceive(route, credential, id) ==
  /\ serverCall.status # 0
  /\ route = "create" => Len(serverRequests) < MaxRequests
  /\ serverCall' = [route |-> route, credential |-> credential, id |-> id, step |-> 1,
                    status |-> 0, role |-> Null, trace |-> << >>]
  /\ UNCHANGED <<serverRequests, frontVars>>

\* authenticate: 401 without a valid token, otherwise req.user is set and next()
authenticate ==
  /\ CurrentHandler = "authenticate"
  /\ serverCall' = IF VerifyToken(serverCall.credential) = Null THEN Respond(401)
                   ELSE CallNext(VerifyToken(serverCall.credential))
  /\ UNCHANGED <<serverRequests, frontVars>>

\* adminOnly / studentOnly: 403 unless req.user.role is one the check admits
RoleCheck(m) ==
  /\ m \in RoleChecks
  /\ CurrentHandler = m
  /\ serverCall' = IF serverCall.role \in AllowedRoles(m) THEN CallNext(serverCall.role)
                   ELSE Respond(403)
  /\ UNCHANGED <<serverRequests, frontVars>>

\* createRequest: a new request in status pending
createRequest ==
  /\ CurrentHandler = "createRequest"
  /\ serverRequests' = Append(serverRequests,
                              [id |-> Len(serverRequests) + 1, status |-> "pending"])
  /\ serverCall' = Respond(201)
  /\ UNCHANGED frontVars

\* getUserRequests, getAllRequests, getAdminStats: they read
ReadController ==
  /\ CurrentHandler \in {"getUserRequests", "getAllRequests", "getAdminStats"}
  /\ serverCall' = Respond(200)
  /\ UNCHANGED <<serverRequests, frontVars>>

\* approveRequest, rejectRequest, markReturned: 404 for an unknown id, 409 for
\* a request in another state, otherwise the status is set
TransitionController(name, from, to) ==
  /\ CurrentHandler = name
  /\ IF serverCall.id \notin DOMAIN serverRequests
     THEN serverCall' = Respond(404) /\ UNCHANGED serverRequests
     ELSE IF serverRequests[serverCall.id].status # from
     THEN serverCall' = Respond(409) /\ UNCHANGED serverRequests
     ELSE /\ serverCall' = Respond(200)
          /\ serverRequests' = [serverRequests EXCEPT ![serverCall.id].status = to]
  /\ UNCHANGED frontVars

approveRequest == TransitionController("approveRequest", "pending", "approved")

rejectRequest == TransitionController("rejectRequest", "pending", "rejected")

markReturned == TransitionController("markReturned", "approved", "returned")

(* ---------------------------------------------------------------------- *)
(* EquipmentManagement                                                     *)
(* ---------------------------------------------------------------------- *)
\* What the number inputs can hold: a run of digits with an optional sign,
\* or nothing parseInt can read.
RawNumbers == [kind : {"digits"}, n : -1..MaxQuantity] \cup {[kind |-> "blank", n |-> 0]}

QuantityInputs == { raw \in RawNumbers : raw.n >= 0 }

NameInputs == {"", "Item"}

\* parseInt(value) || ''
ParseIntOrEmpty(raw) ==
  IF raw.kind = "blank" \/ raw.n = 0 THEN EmptyString ELSE Num(raw.n)

\* !x for a text field and for a number field
FalsyText(field) == field = ""

FalsyNumber(field) == field.kind = "string" \/ field.n = 0

\* The form modal and the delete confirmation are full-page overlays
\* (className "modal d-block"): the page beneath takes no click while one shows.
EquipPageClickable == ~showModal /\ deleteConfirmId = 0

\* the header's Add New Equipment button
handleAddEquipment ==
  /\ location = "/equipment-management"
  /\ EquipPageClickable
  /\ modalMode' = "add"
  /\ editingId' = 0
  /\ formData' = EquipFormInit
  /\ showModal' = TRUE
  /\ UNCHANGED <<othersOfEquip, equipment, deleteConfirmId>>
  /\ requested' = Null
  /\ lastAlert' = ""
  /\ apiOutcome' = NoOutcome

\* the row's edit button: handleEditEquipment(item)
handleEditEquipment(i) ==
  /\ location = "/equipment-management"
  /\ EquipPageClickable
  /\ i \in DOMAIN equipment
  /\ modalMode' = "edit"
  /\ editingId' = equipment[i].id
  /\ formData' = [name |-> equipment[i].name,
                  quantity |-> Num(equipment[i].quantity),
                  available |-> Num(equipment[i].available)]
  /\ showModal' = TRUE
  /\ UNCHANGED <<othersOfEquip, equipment, deleteConfirmId>>
  /\ requested' = Null
  /\ lastAlert' = ""
  /\ apiOutcome' = NoOutcome

\* EquipmentManagement.handleInputChange
handleInputChange(name, value) ==
  /\ location = "/equipment-management"
  /\ showModal
  /\ IF name = "quantity" \/ name = "available"
     THEN formData' = [formData EXCEPT ![name] = ParseIntOrEmpty(value)]
     ELSE formData' = [formData EXCEPT ![name] = value]
  /\ formData' # formData
  /\ UNCHANGED <<othersOfEquip, equipment, showModal, modalMode, editingId,
                  deleteConfirmId>>
  /\ requested' = Null
  /\ lastAlert' = ""
  /\ apiOutcome' = NoOutcome

\* setShowModal(false): the modal's close and Cancel buttons
CloseEquipModal ==
  /\ location = "/equipment-management"
  /\ showModal
  /\ showModal' = FALSE
  /\ UNCHANGED <<othersOfEquip, equipment, modalMode, formData, editingId,
                  deleteConfirmId>>
  /\ requested' = Null
  /\ lastAlert' = ""
  /\ apiOutcome' = NoOutcome

\* { id: equipment.length + 1, ...formData }
NewEquipment(list, f) ==
  [id |-> Len(list) + 1, name |-> f.name, quantity |-> f.quantity.n,
   available |-> f.available.n]

\* equipment.map(item => item.id === editingId ? { ...item, ...formData } : item)
EditMap(list, id, f) ==
  [i \in DOMAIN list |->
     IF list[i].id = id
     THEN [list[i] EXCEPT !.name = f.name, !.quantity = f.quantity.n,
                          !.available = f.available.n]
     ELSE list[i]]

\* The validation of handleSubmitForm
FormRejected(f) ==
  FalsyText(f.name) \/ FalsyNumber(f.quantity) \/ FalsyNumber(f.available)

handleSubmitForm ==
  /\ location = "/equipment-management"
  /\ showModal
  /\ IF FormRejected(formData)
     THEN /\ lastAlert' = "Please fill in all required fields"
          /\ UNCHANGED <<equipment, showModal>>
     ELSE IF modalMode = "add"
     THEN /\ Len(equipment) < MaxEquipment
          /\ equipment' = Append(equipment, NewEquipment(equipment, formData))
          /\ lastAlert' = "Equipment added successfully!"
          /\ showModal' = FALSE
     ELSE /\ equipment' = EditMap(equipment, editingId, formData)
          /\ lastAlert' = "Equipment updated successfully!"
          /\ showModal' = FALSE
  /\ UNCHANGED <<othersOfEquip, modalMode, formData, editingId, deleteConfirmId>>
  /\ requested' = Null
  /\ apiOutcome' = NoOutcome

\* the row's delete button: setDeleteConfirmId(item.id)
AskDeleteEquipment(i) ==
  /\ location = "/equipment-management"
  /\ EquipPageClickable
  /\ i \in DOMAIN equipment
  /\ deleteConfirmId' = equipment[i].id
  /\ UNCHANGED <<othersOfEquip, equipment, showModal, modalMode, formData, editingId>>
  /\ requested' = Null
  /\ lastAlert' = ""
  /\ apiOutcome' = NoOutcome

CancelDeleteEquipment ==
  /\ location = "/equipment-management"
  /\ deleteConfirmId # 0
  /\ deleteConfirmId' = 0
  /\ UNCHANGED <<othersOfEquip, equipment, showModal, modalMode, formData, editingId>>
  /\ requested' = Null
  /\ lastAlert' = ""
  /\ apiOutcome' = NoOutcome

\* equipment.filter(item => item.id !== id)
DeleteFilter(list, id) == SelectSeq(list, LAMBDA item : item.id # id)

\* the confirmation's Delete button: handleDeleteEquipment(deleteConfirmId)
handleDeleteEquipment ==
  /\ location = "/equipment-management"
  /\ deleteConfirmId # 0
  /\ equipment' = DeleteFilter(equipment, deleteConfirmId)
  /\ deleteConfirmId' = 0
  /\ lastAlert' = "Equipment deleted successfully!"
  /\ apiOutcome' = NoOutcome
  /\ UNCHANGED <<othersOfEquip, showModal, modalMode, formData, editingId>>
  /\ requested' = Null

(* ---------------------------------------------------------------------- *)
(* Specification                                                           *)
(* ---------------------------------------------------------------------- *)
\* Every page at its hook initialisers, nothing suspended, no alert shown.
PagesInit ==
  /\ loginForm = LoginFormInit
  /\ loginError = ""
  /\ loginLoading = FALSE
  /\ loginPending = NoPending
  /\ loginPendingMounted = FALSE
  /\ mockEquipmentData \in MockEquipmentLists
  /\ equipment = mockEquipmentData
  /\ showModal = FALSE
  /\ modalMode = "add"
  /\ formData = EquipFormInit
  /\ editingId = 0
  /\ deleteConfirmId = 0
  /\ historySearchTerm = ""
  /\ historyFilterStatus = "all"
  /\ borrowRequests = << >>
  /\ showBorrowModal = FALSE
  /\ selectedEquipmentForBorrow = 0
  /\ borrowFormData = BorrowFormInit
  /\ borrowErrors = NoErrors
  /\ showConfirmation = FALSE
  /\ isSubmitting = FALSE
  /\ confirmPending = 0
  /\ confirmPendingMounted = FALSE
  /\ redirectPending = 0
  /\ requests = NoRequests
  /\ actionModal = NoModal
  /\ actionNotes = ""
  /\ requestsSearchTerm = ""
  /\ requestsFilterStatus = "all"
  /\ adminRequests = mockRecentRequests
  /\ adminActionModal = NoModal
  /\ token = Null
  /\ storedUser = NoUser
  /\ apiLoginPending = NoCall
  /\ lastFetch = NoFetch
  /\ serverCall = NoServerCall
  /\ serverRequests = << >>
  /\ lastAlert = ""
  /\ apiOutcome = NoOutcome

Init ==
  /\ user = NoUser
  /\ location = "/login"
  /\ visited = {}
  /\ requested = Null
  /\ PagesInit

ShellNext ==
  \/ \E path \in Paths : ClickLink(path)
  \/ \E path \in Paths : HistoryGo(path)
  \/ handleLogout
  \/ \E name \in {"email", "password", "role"} :
       \E value \in EmailInputs \cup PasswordInputs \cup Roles :
         LoginInputChange(name, value)
  \/ handleSubmitStart
  \/ handleSubmitFinish

RequestsNext ==
  \/ \E i \in 1..MaxRequests : \E a \in {"approve", "reject", "return"} :
       OpenActionModal(i, a)
  \/ CloseActionModal
  \/ \E t \in NoteTexts : SetActionNotes(t)
  \/ \E term \in RequestSearchInputs : SetRequestsSearchTerm(term)
  \/ \E status \in {"all"} \cup Statuses : SetRequestsFilterStatus(status)
  \/ handleApprove
  \/ handleReject
  \/ handleMarkReturned

AdminNext ==
  \/ \E i \in 1..MaxRequests : \E a \in {"approve", "reject"} :
       AdminOpenActionModal(i, a)
  \/ AdminCloseActionModal
  \/ handleApproveRequest
  \/ handleRejectRequest

EquipmentNext ==
  \/ handleAddEquipment
  \/ \E i \in 1..MaxEquipment : handleEditEquipment(i)
  \/ \E value \in NameInputs : handleInputChange("name", value)
  \/ \E value \in QuantityInputs : handleInputChange("quantity", value)
  \/ \E value \in RawNumbers : handleInputChange("available", value)
  \/ CloseEquipModal
  \/ handleSubmitForm
  \/ \E i \in 1..MaxEquipment : AskDeleteEquipment(i)
  \/ CancelDeleteEquipment
  \/ handleDeleteEquipment

HistoryNext ==
  \/ \E term \in SearchInputs : SetHistorySearchTerm(term)
  \/ \E status \in {"all"} \cup Statuses : SetHistoryFilterStatus(status)

Next ==
  \/ ShellNext
  \/ HistoryNext

\* The App as the browser loads it.  The shell reads the equipment fixture only
\* to draw the request fixture of /requests: one equipment with one of its two
\* units on loan is enough for every status to appear there.
InitShell ==
  /\ Init
  /\ mockEquipmentData = <<MockEquipment(1, 2, 1)>>

Spec == InitShell /\ [][Next]_vars

\* The administrator as handleSubmitFinish logs them in.
AdminUser == [id |-> "3", name |-> "Admin User", email |-> "admin@example.com",
              role |-> "admin"]

InitEquipment ==
  /\ user = AdminUser
  /\ location = "/equipment-management"
  /\ visited = {}
  /\ requested = Null
  /\ PagesInit

\* The login form, logout and the api login call, without the other pages.
LoginNext ==
  \/ \E name \in {"email", "password", "role"} :
       \E value \in EmailInputs \cup PasswordInputs \cup Roles :
         LoginInputChange(name, value)
  \/ handleSubmitStart
  \/ handleSubmitFinish
  \/ handleLogout
  \/ \E email \in EmailInputs : \E password \in PasswordInputs : \E role \in Roles :
       authLoginStart(email, password, role, ServerLogin(email, password, role))
  \/ authLoginFinish
  \/ \E email \in RegisterEmails : \E role \in Roles :
       authRegisterStart(email, role, ServerRegister(email, role))
  \/ authRegisterFinish
  \/ apiGet(Response("GET", 200, "OK", "json", "ok", TRUE, Null, NoUser))

\* Nothing LoginNext does reads the equipment fixture: one fixture is enough.
InitLogin ==
  /\ Init
  /\ mockEquipmentData = <<MockEquipment(1, 1, 1)>>

SpecLogin == InitLogin /\ [][LoginNext]_vars

StudentNext ==
  \/ \E id \in CardIds : handleBorrowClick(id)
  \/ CloseBorrowModal
  \/ handleSubmitBorrow

BorrowNext ==
  \/ \E id \in EquipmentOptions : BorrowEquipment_handleEquipmentChange(id)
  \/ \E name \in {"borrowFromDate", "borrowToDate"} :
       \E value \in DateInputs : BorrowEquipment_handleInputChange(name, value)
  \/ \E value \in PurposeInputs : BorrowEquipment_handleInputChange("notes", value)
  \/ handleSubmit
  \/ CloseConfirmation
  \/ handleConfirmSubmitStart
  \/ handleConfirmSubmitFinish
  \/ RedirectToHistory

\* The borrower as handleSubmitFinish logs them in.
Borrowers == { Profile(a) : a \in { m \in mockUsers : m.role \in {"student", "staff"} } }

\* A student's or staff member's session on the dashboard and the borrow
\* form, from the state handleSubmitFinish leaves: logged in, on
\* /student-dashboard.
InitBorrower ==
  /\ user \in Borrowers
  /\ location = "/student-dashboard"
  /\ visited = {"/student-dashboard"}
  /\ requested = Null
  /\ PagesInit

BorrowerNext ==
  \/ \E path \in {"/student-dashboard", "/borrow-equipment"} : ClickLink(path)
  \/ StudentNext
  \/ BorrowNext

SpecBorrower == InitBorrower /\ [][BorrowerNext]_vars

\* The EquipmentManagement page as the router mounts it for the administrator.
SpecEquipment == InitEquipment /\ [][EquipmentNext]_vars

\* The administrator's session on the dashboard and the requests page, from
\* the state handleSubmitFinish leaves: logged in, on /admin-dashboard.
InitAdmin ==
  /\ user = AdminUser
  /\ location = "/admin-dashboard"
  /\ visited = {"/admin-dashboard"}
  /\ requested = Null
  /\ PagesInit

AdminSessionNext ==
  \/ \E path \in {"/admin-dashboard", "/requests"} : ClickLink(path)
  \/ RequestsNext
  \/ AdminNext

SpecAdmin == InitAdmin /\ [][AdminSessionNext]_vars

(* ---------------------------------------------------------------------- *)
(* Request lifecycle                                                       *)
(* ---------------------------------------------------------------------- *)
LegalTransitions ==
  { <<"pending", "approved">>, <<"pending", "rejected">>, <<"approved", "returned">> }

\* The statuses of a request list change only along LegalTransitions.
LegalStep(old, new) ==
  \A i \in DOMAIN old \cap DOMAIN new :
     old[i].status # new[i].status =>
       <<old[i].status, new[i].status>> \in LegalTransitions

\* C1: while a page stays mounted, every status change of a request of
\* RequestsManagement and of AdminDashboard goes pending -> approved,
\* pending -> rejected or approved -> returned; rejected and returned requests
\* never change status again.
C1_StatusTransitions ==
  [][ location' = location =>
        /\ LegalStep(requests, requests')
        /\ LegalStep(adminRequests, adminRequests') ]_vars

\* A request that this session approved and then marked returned, next to one
\* it rejected.
C1_Witness ==
  /\ location = "/requests"
  /\ \E i \in DOMAIN requests :
       requests[i].status = "returned" /\ requests[i].approvalDate = Today
  /\ \E j \in DOMAIN requests :
       requests[j].status = "rejected" /\ requests[j].approvalDate = Today

(* ---------------------------------------------------------------------- *)
(* Requests and the inventory                                              *)
(* ---------------------------------------------------------------------- *)
\* The inventory record a request's equipmentId names.  While the requests
\* page is mounted the only equipment records are those of the fixture.
EquipmentOf(eq) ==
  mockEquipmentData[CHOOSE e \in DOMAIN mockEquipmentData : mockEquipmentData[e].id = eq]

\* Request i of the mounted requests page goes from pending to approved.
Approved(i) ==
  /\ location = "/requests" /\ location' = "/requests"
  /\ i \in DOMAIN requests /\ i \in DOMAIN requests'
  /\ requests[i].status = "pending" /\ requests'[i].status = "approved"

\* Request i of the mounted requests page goes from approved to returned.
Returned(i) ==
  /\ location = "/requests" /\ location' = "/requests"
  /\ i \in DOMAIN requests /\ i \in DOMAIN requests'
  /\ requests[i].status = "approved" /\ requests'[i].status = "returned"

\* C3: approving a pending request whose equipment has no unit available
\* fails: the request is not approved (and the available count stays 0).
C3_ApproveNeedsCapacity ==
  [][ \A i \in 1..MaxRequests :
        Approved(i) => EquipmentOf(requests[i].equipmentId).available > 0 ]_vars

\* C4: when an equipment has one unit available, the approvals of two pending
\* requests for it do not both succeed: the approved, not yet returned
\* requests for the equipment never outnumber its quantity.
C4_LoansWithinQuantity ==
  location = "/requests" =>
    \A e \in DOMAIN mockEquipmentData :
       mockEquipmentData[e].available = 1 =>
         OnLoan(requests, mockEquipmentData[e].id) <= mockEquipmentData[e].quantity

\* C5: a successful approve takes one unit off the available count of the
\* request's equipment and a successful markReturned puts one unit back.
C5_ApproveAndReturnMoveOneUnit ==
  [][ \A i \in 1..MaxRequests :
        /\ Approved(i) =>
             EquipmentOf(requests[i].equipmentId).available' =
               EquipmentOf(requests[i].equipmentId).available - 1
        /\ Returned(i) =>
             EquipmentOf(requests[i].equipmentId).available' =
               EquipmentOf(requests[i].equipmentId).available + 1 ]_vars

(* ---------------------------------------------------------------------- *)
(* Inventory                                                               *)
(* ---------------------------------------------------------------------- *)
\* C2: every equipment record has 0 <= available <= quantity, whatever was
\* added, edited or deleted: a form whose available count is outside the
\* range is rejected.
C2_AvailableWithinQuantity ==
  \A i \in DOMAIN equipment :
     /\ 0 <= equipment[i].available
     /\ equipment[i].available <= equipment[i].quantity

(* ---------------------------------------------------------------------- *)
(* Access                                                                  *)
(* ---------------------------------------------------------------------- *)
AdminPages == {"/admin-dashboard", "/equipment-management", "/requests"}

\* C6: the pages of the admin-only operations (/admin-dashboard,
\* /equipment-management, /requests) render only for a user whose role is
\* admin, and every admin-only request route runs authenticate and adminOnly
\* before its controller.
C6_AdminOnly ==
  /\ location \in AdminPages => (user # NoUser /\ user.role = "admin")
  /\ \A route \in AdminOnlyRoutes :
       /\ RunsBeforeController("authenticate", route)
       /\ RunsBeforeController("adminOnly", route)

\* A student who asked for the requests page (a history entry the
\* administrator left) and was sent to /login.
C6_Witness ==
  /\ user # NoUser
  /\ user.role = "student"
  /\ requested = "/requests"
  /\ location = "/login"

\* The ids of the requests BorrowHistory shows to u.
ShownIds(u) == { BorrowHistoryRows(u)[i].id : i \in DOMAIN BorrowHistoryRows(u) }

\* C7: BorrowHistory shows a user only requests of which that user is the
\* requester: no request it shows to the user logged in is one it shows to
\* another user as well.
C7_OnlyOwnRequests ==
  (location = "/borrow-history" /\ user # NoUser) =>
    \A other \in mockUsers :
       other.id # user.id => ShownIds(user) \cap ShownIds(Profile(other)) = {}

\* The pages with a request-creation form.
CreationPages == {"/student-dashboard", "/borrow-equipment"}

\* C10: a page that creates borrow requests renders only for a user whose
\* role is student or staff: an administrator, or nobody, never reaches one.
C10_OnlyBorrowersCreate ==
  location \in CreationPages =>
    (user # NoUser /\ user.role \in {"student", "staff"})

(* ---------------------------------------------------------------------- *)
(* Login                                                                   *)
(* ---------------------------------------------------------------------- *)
\* The email and password are those of an account whose role is another one.
WrongRole(f) ==
  \E a \in mockUsers : a.email = f.email /\ a.password = f.password /\ a.role # f.role

InvalidCredentials == "Invalid email, password, or role. Please check your credentials."

\* C8: a login with the email and password of an account and another role
\* finds no account, and a login that finds none shows the invalid-credentials
\* error without calling onLogin, navigating or storing a token or a profile;
\* the api login call stores nothing either when the server refuses it.
C8_WrongRoleRejected ==
  [][ /\ (loginPending = NoPending /\ loginPending' # NoPending /\ WrongRole(loginForm))
        => loginPending' = NotFound
      /\ (loginPending = NotFound /\ loginPending' = NoPending)
        => /\ user' = user
           /\ location' = location
           /\ UNCHANGED storageVars
           /\ loginPendingMounted => loginError' = InvalidCredentials
      /\ (apiLoginPending = Unauthorized /\ apiLoginPending' = NoCall)
        => UNCHANGED storageVars ]_vars

\* The form holds the administrator's email and password with the role
\* student, it was submitted and the error shows; nobody is logged in.
C8_Witness ==
  /\ loginForm = [email |-> "admin@example.com", password |-> "password123",
                  role |-> "student"]
  /\ loginError = InvalidCredentials
  /\ ~loginLoading
  /\ user = NoUser
  /\ location = "/login"
  /\ token = Null

(* ---------------------------------------------------------------------- *)
(* Request creation                                                        *)
(* ---------------------------------------------------------------------- *)
\* A request names its equipment, both dates and a purpose, and its return
\* date is after its borrow date.
CompleteRequest(r) ==
  /\ {"equipmentId", "borrowFromDate", "borrowToDate", "notes"} \subseteq DOMAIN r
  /\ r.equipmentId # ""
  /\ r.borrowFromDate # ""
  /\ r.borrowToDate # ""
  /\ r.notes # ""
  /\ DateValue(r.borrowToDate) > DateValue(r.borrowFromDate)

\* C9: every borrow request created is complete, on both creation paths: the
\* requests StudentDashboard.handleSubmitBorrow appends, and the form
\* BorrowEquipment asks to confirm and submits.
C9_CreatedRequestsValid ==
  /\ \A i \in DOMAIN borrowRequests : CompleteRequest(borrowRequests[i])
  /\ showConfirmation => CompleteRequest(borrowFormData)

(* ---------------------------------------------------------------------- *)
(* Request creation: frame                                                  *)
(* ---------------------------------------------------------------------- *)
\* The alerts with which the two creation handlers report a success.
CreateSuccessAlerts ==
  { "Borrow request submitted for Item",
    "Borrow request submitted successfully! An admin will review your request soon." }

\* The fields that hold a decision.
DecisionFields == {"approvedBy", "approvalDate", "notes"}

\* A record that carries no decision: each decision field is absent or null.
NoDecision(r) == \A f \in DecisionFields \cap DOMAIN r : r[f] = Null

\* C11: a step in which a creation handler reports a success appends exactly
\* one request to the list of the user's borrow requests, pending and without
\* decision metadata, and leaves the requests already listed and every
\* equipment record as they were.
C11_CreateAddsOnePending ==
  [][ lastAlert' \in CreateSuccessAlerts =>
        /\ Len(borrowRequests') = Len(borrowRequests) + 1
        /\ SubSeq(borrowRequests', 1, Len(borrowRequests)) = borrowRequests
        /\ borrowRequests'[Len(borrowRequests')].status = "pending"
        /\ NoDecision(borrowRequests'[Len(borrowRequests')])
        /\ UNCHANGED <<mockEquipmentData, equipment>> ]_vars

HasDecision(r) ==
  /\ {"approvedBy", "approvalDate"} \subseteq DOMAIN r
  /\ r.approvedBy # Null
  /\ r.approvalDate # Null

\* A request list in which the pending requests carry no decision and every
\* other request carries its approver and decision date.
DecisionsRecorded(reqs) ==
  \A i \in DOMAIN reqs :
     IF reqs[i].status = "pending" THEN NoDecision(reqs[i]) ELSE HasDecision(reqs[i])

\* C13: in every state a pending request has no approver, decision date or
\* decision notes, and an approved, rejected or returned request has its
\* approver and decision date, in the lists of RequestsManagement,
\* AdminDashboard and StudentDashboard.
C13_DecisionMetadata ==
  /\ DecisionsRecorded(requests)
  /\ DecisionsRecorded(adminRequests)
  /\ DecisionsRecorded(borrowRequests)

(* ---------------------------------------------------------------------- *)
(* Reject                                                                   *)
(* ---------------------------------------------------------------------- *)
\* The request at position i of a list of the mounted page goes from pending
\* to rejected.
RejectedIn(old, new, i) ==
  /\ location' = location
  /\ i \in DOMAIN old /\ i \in DOMAIN new
  /\ old[i].status = "pending" /\ new[i].status = "rejected"

\* The rejected record carries the reason, the date and the approver.
ReasonRecorded(r, reason, approver) ==
  /\ HasDecision(r)
  /\ "notes" \in DOMAIN r
  /\ r.notes = reason
  /\ r.approvalDate = Today
  /\ r.approvedBy = approver

\* C14: the reject of a pending request, on RequestsManagement and on
\* AdminDashboard, sets the status to rejected, records the reason typed, the
\* date and the administrator as the approver, and leaves the quantity and the
\* available count of every equipment record as they were.
C14_RejectRecordsDecision ==
  [][ /\ \A i \in 1..MaxRequests :
           RejectedIn(requests, requests', i) =>
             /\ ReasonRecorded(requests'[i], actionNotes, user.name)
             /\ UNCHANGED <<mockEquipmentData, equipment>>
      /\ \A i \in 1..MaxRequests :
           RejectedIn(adminRequests, adminRequests', i) =>
             /\ ReasonRecorded(adminRequests'[i], "", user.name)
             /\ UNCHANGED <<mockEquipmentData, equipment>> ]_vars

(* ---------------------------------------------------------------------- *)
(* The server's authorization gate                                          *)
(* ---------------------------------------------------------------------- *)
RouteNames == {"create", "user", "list", "approve", "reject", "return", "stats"}

\* The routes of the lifecycle operations: create, approve, reject, return.
LifecycleRoutes == {"create", "approve", "reject", "return"}

ServerNext ==
  \/ \E route \in RouteNames : \E credential \in Credentials : \E id \in 1..MaxRequests :
       ServerReceive(route, credential, id)
  \/ authenticate
  \/ \E m \in RoleChecks : RoleCheck(m)
  \/ createRequest
  \/ ReadController
  \/ approveRequest
  \/ rejectRequest
  \/ markReturned

\* The Express server handling calls of the request routes.
SpecServer == Init /\ [][ServerNext]_vars

\* The role checks on a route's chain.
RoleChecksOf(route) ==
  { RequestRoutes[route][k] : k \in DOMAIN RequestRoutes[route] } \cap RoleChecks

\* The call's credential is valid and its role passes every role check of
\* the route.
Admitted(call) ==
  /\ VerifyToken(call.credential) # Null
  /\ \A m \in RoleChecksOf(call.route) : VerifyToken(call.credential) \in AllowedRoles(m)

\* The chain of each route: authenticate first, the controller last, and
\* between them the role check, one on every lifecycle route.
ChainsGateFirst ==
  \A route \in RouteNames :
     LET chain == RequestRoutes[route] IN
     /\ chain[1] = "authenticate"
     /\ \A k \in 2..(Len(chain) - 1) : chain[k] \in RoleChecks
     /\ chain[Len(chain)] \notin RoleChecks \cup {"authenticate"}
     /\ route \in LifecycleRoutes => (Len(chain) = 3 /\ chain[2] \in RoleChecks)

\* C15: on every request route authenticate runs first, then the role check,
\* then the controller.  A call without a valid credential is answered 401 by
\* authenticate, before any role check; a call with a valid credential of a
\* role the route does not admit is answered 403 by the role check; the
\* controller runs, and the stored requests change, only for a call that
\* passed both.
C15_GateBeforeHandler ==
  [][ /\ ChainsGateFirst
      /\ serverRequests' # serverRequests => Admitted(serverCall)
      /\ ControllerOf(serverCall'.route) \in
           { serverCall'.trace[k] : k \in DOMAIN serverCall'.trace }
           => Admitted(serverCall')
      /\ (serverCall.status = 0 /\ serverCall'.status # 0
            /\ VerifyToken(serverCall.credential) = Null)
           => /\ serverCall'.status = 401
              /\ serverCall'.trace = <<"authenticate">>
              /\ UNCHANGED serverRequests
      /\ (serverCall.status = 0 /\ serverCall'.status # 0
            /\ VerifyToken(serverCall.credential) # Null /\ ~Admitted(serverCall))
           => /\ serverCall'.status = 403
              /\ Len(serverCall'.trace) = 2
              /\ serverCall'.trace[1] = "authenticate"
              /\ serverCall'.trace[2] \in RoleChecks
              /\ UNCHANGED serverRequests ]_vars

\* A student's call of the approve route was answered 403 by adminOnly while
\* a pending request, which the controller would have approved, is stored;
\* the request is still pending.
C15_Witness ==
  /\ serverCall.route = "approve"
  /\ serverCall.credential = "token-student"
  /\ serverCall.status = 403
  /\ serverCall.trace = <<"authenticate", "adminOnly">>
  /\ serverCall.id \in DOMAIN serverRequests
  /\ serverRequests[serverCall.id].status = "pending"

(* ---------------------------------------------------------------------- *)
(* Requests are kept                                                        *)
(* ---------------------------------------------------------------------- *)
\* The identifiers of the requests of a list.
Ids(reqs) == { reqs[i].id : i \in DOMAIN reqs }

\* C16: approve, reject and markReturned never take a request off a list:
\* while a page stays mounted its requests keep their number and their
\* identifiers, so the rejected and the returned ones stay listed.
C16_RequestsNeverDeleted ==
  [][ location' = location =>
        /\ Len(requests') = Len(requests)
        /\ Ids(requests') = Ids(requests)
        /\ Len(adminRequests') = Len(adminRequests)
        /\ Ids(adminRequests') = Ids(adminRequests) ]_vars

\* The requests page after a markReturned, with a request this session
\* rejected: every identifier of the fixture is still listed.
C16_Witness ==
  /\ location = "/requests"
  /\ lastAlert = "Equipment marked as returned!"
  /\ \E i \in DOMAIN requests :
       requests[i].status = "rejected" /\ requests[i].approvalDate = Today
  /\ Ids(requests) = 1..MaxRequests

(* ---------------------------------------------------------------------- *)
(* Deleting equipment                                                       *)
(* ---------------------------------------------------------------------- *)
\* The list without its k-th record.
WithoutRecord(list, k) ==
  [i \in 1..(Len(list) - 1) |-> IF i < k THEN list[i] ELSE list[i + 1]]

\* C17: a delete removes exactly the record asked for, one record, and
\* leaves every other equipment record and every borrow request, those for
\* the deleted equipment included, as they were.
C17_DeleteRemovesOneRecord ==
  [][ lastAlert' = "Equipment deleted successfully!" =>
        /\ \E k \in DOMAIN equipment :
             /\ equipment[k].id = deleteConfirmId
             /\ equipment' = WithoutRecord(equipment, k)
        /\ UNCHANGED <<requests, adminRequests, borrowRequests>> ]_vars

(* ---------------------------------------------------------------------- *)
(* The session in localStorage                                              *)
(* ---------------------------------------------------------------------- *)
\* The step is Navbar's logout: a logged-in user is taken to /login (no other
\* handler of the login session navigates there for a logged-in user).
LogoutStep == user # NoUser /\ requested' = "/login"

\* The step finishes a login or a registration the server accepted.
AuthSucceeds ==
  /\ ResponseOk(apiLoginPending)
  /\ apiLoginPending.token # Null
  /\ apiLoginPending' = NoCall

DayOf(date) ==
  CASE date = "2025-10-19" -> 1
    [] date = "2025-10-27" -> 2
    [] date = "2025-10-31" -> 3
    [] date = "2025-11-01" -> 4
    [] date = "2025-11-02" -> 5

\* The rows are in order of request date, newest first, and rows of one date
\* in order of identifier.
NewestFirst(rows) ==
  \A i, j \in DOMAIN rows :
     i < j =>
       \/ DayOf(rows[i].requestedDate) > DayOf(rows[j].requestedDate)
       \/ /\ DayOf(rows[i].requestedDate) = DayOf(rows[j].requestedDate)
          /\ rows[i].id < rows[j].id

\* C19: the table of RequestsManagement and the table of BorrowHistory list
\* their requests newest first, requests of one date by ascending identifier,
\* whatever the search term and the status filter are.
C19_ListingsNewestFirst ==
  /\ location = "/requests" => NewestFirst(filteredRequests)
  /\ location = "/borrow-history" => NewestFirst(BorrowHistoryRows(user))

\* The request passes the status filter, when one is given, and the search
\* term, when one is given, is part of its student name or its equipment name,
\* whatever the case of the letters.
MatchesFilters(req, searchTerm, filterStatus) ==
  /\ filterStatus = "all" \/ req.status = filterStatus
  /\ \/ searchTerm = ""
     \/ Includes(ToLowerCase(req.studentName), ToLowerCase(searchTerm))
     \/ Includes(ToLowerCase(req.equipmentName), ToLowerCase(searchTerm))

\* C20: the rows of RequestsManagement are exactly the requests that pass the
\* status filter and match the search term on a name: none that matches on no
\* name is listed and none that passes is left out.
C20_ListingMatchesFilters ==
  location = "/requests" =>
    filteredRequests =
      SelectSeq(requests, LAMBDA req :
                  MatchesFilters(req, requestsSearchTerm, requestsFilterStatus))

(* ---------------------------------------------------------------------- *)
(* api.js: calls, errors and the stored session                            *)
(* ---------------------------------------------------------------------- *)
\* The tokens and profiles a caller hands to setToken and setUser.
TokenInputs == {Null, "token-student", "token-admin"}

UserInputs == {NoUser} \cup { Profile(a) : a \in { m \in mockUsers : m.role # "staff" } }

HttpMethods == {"GET", "POST", "PUT", "DELETE"}

\* api.js by itself: its exported calls in any order, with every answer the
\* server and the network can give.
ApiNext ==
  \/ \E email \in EmailInputs : \E password \in PasswordInputs : \E role \in Roles :
       \E response \in {ServerLogin(email, password, role)} \cup FaultResponses("login") :
         authLoginStart(email, password, role, response)
  \/ authLoginFinish
  \/ \E email \in RegisterEmails : \E role \in Roles :
       \E response \in {ServerRegister(email, role)} \cup FaultResponses("register") :
         authRegisterStart(email, role, response)
  \/ authRegisterFinish
  \/ \E response \in CallResponses("GET") : apiGet(response)
  \/ \E response \in CallResponses("POST") : apiPost(response)
  \/ \E response \in CallResponses("PUT") : apiPut(response)
  \/ \E response \in CallResponses("DELETE") : apiDelete(response)
  \/ \E tok \in TokenInputs : setTokenCall(tok)
  \/ \E u \in UserInputs : setUserCall(u)
  \/ authLogout

SpecApi == InitLogin /\ [][ApiNext]_vars

\* The step is the part of authLogin or authRegister after its await.
AuthFinishStep ==
  /\ apiLoginPending.call \in {"login", "register"}
  /\ apiLoginPending' = NoCall

\* The HTTP call failed: no response (network error) or a response not ok.
CallFailed(response) == response.status = 0 \/ ~ResponseOk(response)

\* The response is a JSON body whose data carries a token.
CarriesToken(response) ==
  response.body = "json" /\ response.data /\ response.token # Null

MessageOf(response) ==
  IF response.body = "json" /\ response.message # Null THEN response.message
  ELSE IF response.statusText # "" THEN response.statusText
  ELSE "An error occurred"

\* C22: apiGet, apiPost, apiPut and apiDelete, on a response that is not ok,
\* return nothing: they throw an Error whose status is the HTTP status and
\* whose message is the body's message member, else the status text, else
\* 'An error occurred'.
C22_ErrorCarriesStatusAndMessage ==
  [][ \A method \in HttpMethods : \A response \in CallResponses(method) :
        (response.status # 0 /\ ~ResponseOk(response) /\ apiRequest(method, response)) =>
          apiOutcome' = ThrownError(response.status, MessageOf(response)) ]_vars

\* The token and profile pairs one login or registration response carries.
SessionPairs ==
  { <<r.token, r.user>> :
      r \in { x \in { ServerLogin(a.email, a.password, a.role) : a \in ServerAccounts }
                    \cup { ServerRegister(e, role) : e \in RegisterEmails, role \in Roles } :
                ResponseOk(x) } }

\* C23: the store holds nothing, or the token and the profile of one login or
\* registration response: never the token of one session with the profile of
\* another, and never a profile without a token.
C23_TokenAndProfileOfOneSession ==
  <<token, storedUser>> \in {<<Null, NoUser>>} \cup SessionPairs

(* ---------------------------------------------------------------------- *)
(* Equipment records                                                       *)
(* ---------------------------------------------------------------------- *)
\* C24: whatever was added, edited and deleted, the equipment records of the
\* list have pairwise distinct ids (so an edit or a delete addressed to one id
\* reaches exactly one record).
C24_EquipmentIdsDistinct ==
  \A i \in DOMAIN equipment : \A j \in DOMAIN equipment :
     i # j => equipment[i].id # equipment[j].id

\* The form has a name, a quantity of at least 1 and an available count
\* between 0 and the quantity.
ValidForm(f) ==
  /\ f.name # ""
  /\ f.quantity.kind = "number" /\ f.quantity.n >= 1
  /\ f.available.kind = "number"
  /\ 0 <= f.available.n /\ f.available.n <= f.quantity.n

\* The record and the form have the same name, quantity and available count.
StoresForm(record, f) ==
  /\ record.name = f.name
  /\ record.quantity = f.quantity.n
  /\ record.available = f.available.n

\* C25: handleSubmitForm accepts every form with a name, a quantity >= 1 and
\* 0 <= available <= quantity, an available count of 0 included, and the record
\* it adds or edits holds exactly the values of the form.
C25_ValidFormAccepted ==
  [][ /\ lastAlert' = "Please fill in all required fields" => ~ValidForm(formData)
      /\ lastAlert' = "Equipment added successfully!" =>
           StoresForm(equipment'[Len(equipment')], formData)
      /\ lastAlert' = "Equipment updated successfully!" =>
           \A i \in DOMAIN equipment' :
              equipment[i].id = editingId => StoresForm(equipment'[i], formData) ]_vars

(* ---------------------------------------------------------------------- *)
(* What a decision leaves alone                                            *)
(* ---------------------------------------------------------------------- *)
DecisionAlerts == {"Request approved successfully!", "Request rejected successfully!",
                   "Equipment marked as returned!"}

\* The requester and equipment snapshots, the dates and the purpose.
SnapshotFields == {"id", "studentName", "studentId", "studentEmail", "equipmentName",
                   "equipmentId", "requestedDate", "borrowFromDate", "borrowToDate",
                   "purpose"}

SameSnapshot(old, new) ==
  /\ DOMAIN new = DOMAIN old
  /\ \A f \in SnapshotFields \cap DOMAIN old : new[f] = old[f]

\* Of the list, only the request of this id differs, and of that request
\* nothing of the snapshot.
OnlyChanges(old, new, id) ==
  /\ Len(new) = Len(old)
  /\ \A i \in DOMAIN old :
       IF old[i].id = id THEN SameSnapshot(old[i], new[i]) ELSE new[i] = old[i]

\* C26: an approve, a reject or a markReturned on request r changes r only:
\* every other request keeps its status, its decision metadata and every other
\* field, and r keeps its requester snapshot, equipment snapshot, dates and
\* purpose.
C26_DecisionChangesOneRequest ==
  [][ lastAlert' \in DecisionAlerts =>
        /\ location = "/requests" =>
             (OnlyChanges(requests, requests', actionModal.id) /\ UNCHANGED adminRequests)
        /\ location = "/admin-dashboard" =>
             (OnlyChanges(adminRequests, adminRequests', adminActionModal.id)
              /\ UNCHANGED requests) ]_vars

\* Right after an approve on the requests page: the first request was
\* approved today and the second is still pending, with no decision recorded.
C26_Witness ==
  /\ location = "/requests"
  /\ lastAlert = "Request approved successfully!"
  /\ Len(requests) >= 2
  /\ requests[1].status = "approved" /\ requests[1].approvalDate = Today
  /\ requests[1].purpose = "Sports practice and tournament"
  /\ requests[2].status = "pending" /\ requests[2].approvedBy = Null

(* ---------------------------------------------------------------------- *)
(* Submitting a borrow request                                             *)
(* ---------------------------------------------------------------------- *)
\* C27: at most one submission of BorrowEquipment is in progress at a time:
\* never are two calls of handleConfirmSubmit suspended at their await, and
\* while isSubmitting is true the one in progress is that of the mounted form.
C27_OneSubmissionAtATime ==
  /\ confirmPending <= 1
  /\ isSubmitting => (confirmPending = 1 /\ confirmPendingMounted)

(* ---------------------------------------------------------------------- *)
(* Where a login leads                                                     *)
(* ---------------------------------------------------------------------- *)
\* The step is the part of LoginForm.handleSubmit after its await, with an
\* account found.
LoginSucceeds ==
  /\ loginPending \notin {NoPending, NotFound}
  /\ loginPending' = NoPending

\* The paths tried without a user: every route of App and one that matches
\* the catch-all only.
AnyPaths == Paths \cup {"/no-such-page"}

\* C28: a successful login with role r leads to /admin-dashboard when r is
\* admin and to /student-dashboard otherwise, and that page renders for the
\* user just logged in (no redirect back to /login); with no user logged in
\* every route ends at /login.
C28_LoginLeadsToDashboard ==
  /\ [][ LoginSucceeds =>
           /\ user' # NoUser
           /\ user'.id = loginPending
           /\ requested' = (IF user'.role = "admin" THEN "/admin-dashboard"
                            ELSE "/student-dashboard")
           /\ location' = requested' ]_vars
  /\ [](user = NoUser =>
          /\ location = "/login"
          /\ \A path \in AnyPaths : Resolve(path, NoUser) = "/login")

\* A staff member has just logged in and is on the student dashboard.
C28_Witness ==
  /\ user # NoUser
  /\ user.role = "staff"
  /\ requested = "/student-dashboard"
  /\ location = "/student-dashboard"
  /\ loginPending = NoPending
  /\ visited = {"/student-dashboard"}

====
